---- MODULE Spec2Model ----
(***************************************************************************)
(* Model of the IntelliPatent query router (backend/api_server.py) and of  *)
(* the provider helpers it calls (backend/gemini_helper.py,                *)
(* backend/pinecone_helper.py).                                            *)
(*                                                                         *)
(* Python strings are TLA+ strings; optional values (None | value) are     *)
(* sequences of length 0 or 1; dicts are records, and a key is present in  *)
(* a dict exactly when it is in the DOMAIN of the record.  Non-ASCII       *)
(* decoration (emoji) in literals is dropped, the ASCII text is kept.      *)
(***************************************************************************)
EXTENDS Integers, Sequences, FiniteSets, TLC

(***************************************************************************)
(* Bounds of the model.                                                    *)
(***************************************************************************)
MaxHistory == 2
MaxTopK == 2
MaxQueries == 3
MaxIds == 3
MaxChunks == 2
MaxFiles == 2
MaxSubmissions == 2

(***************************************************************************)
(* str methods used by the code: lower(), strip(), `in`, startswith().     *)
(***************************************************************************)
UpperLetters == "ABCDEFGHIJKLMNOPQRSTUVWXYZ"
LowerLetters == "abcdefghijklmnopqrstuvwxyz"

CharAt(s, i) == SubSeq(s, i, i)

LowerOf ==
    [c \in {CharAt(UpperLetters, i) : i \in 1..26} |->
        CharAt(LowerLetters, CHOOSE i \in 1..26 : CharAt(UpperLetters, i) = c)]

LowerChar(c) == IF c \in DOMAIN LowerOf THEN LowerOf[c] ELSE c

\* character by character, the string split in halves
RECURSIVE Lower(_)
Lower(s) ==
    IF Len(s) = 0 THEN ""
    ELSE IF Len(s) = 1 THEN LowerChar(s)
    ELSE Lower(SubSeq(s, 1, Len(s) \div 2))
             \o Lower(SubSeq(s, (Len(s) \div 2) + 1, Len(s)))

IsSpace(c) == c \in {" ", "\n", "\t"}

RECURSIVE LStrip(_)
LStrip(s) ==
    IF Len(s) > 0 /\ IsSpace(CharAt(s, 1)) THEN LStrip(SubSeq(s, 2, Len(s)))
    ELSE s

RECURSIVE RStrip(_)
RStrip(s) ==
    IF Len(s) > 0 /\ IsSpace(CharAt(s, Len(s))) THEN RStrip(SubSeq(s, 1, Len(s) - 1))
    ELSE s

Strip(s) == RStrip(LStrip(s))

\* Python `t in s` for strings
Contains(s, t) ==
    \E i \in 1..(Len(s) - Len(t) + 1) : SubSeq(s, i, i + Len(t) - 1) = t

StartsWith(s, t) == Len(s) >= Len(t) /\ SubSeq(s, 1, Len(t)) = t

\* Python list(reversed(xs))
\* the list in its own order
Reversed_same(xs) == xs

Reversed(xs) == [i \in 1..Len(xs) |-> xs[Len(xs) + 1 - i]]

\* Optional values
None == <<>>
Some(v) == <<v>>
\* Python `x or ''` for an Optional[str]
OrEmpty(opt) == IF opt = None THEN "" ELSE opt[1]

(***************************************************************************)
(* Literals of search_patents.                                             *)
(***************************************************************************)
technical_terms ==
    <<"microprocessor", "pipeline", "semiconductor", "AI", "neural",
      "cache", "encryption", "robotics", "sensor", "optics">>

summary_keywords ==
    <<"summary", "summarize", "explain", "details", "list", "points",
      "highlight", "brief", "short", "lines", "bullet">>

NotRelevantMarker == "not relevant to patents"

RejectionMessage == "Your query is not relevant to patents or intellectual property."
TooGeneralMessage == "Your query is patent-related but too general; here's a direct answer."
NoMatchFirstMessage == "No relevant matches found; here's a direct Gemini answer."
NewTopicMessage == "This is a new topic unrelated to previous queries."
NoMatchNewMessage == "No relevant matches found for this new topic."
FollowupGenericMessage == "This follow-up is relevant but generic."
NoMatchFollowupMessage == "No relevant matches found for this follow-up."
DenseFailedError == "Failed to generate dense embedding."
NoContentSummary == "No content available for summary."
UnableAnswer == "Unable to generate a response."

\* str(n) for the small positive numbers that appear in notes
DigitLetters == "0123456789"
RECURSIVE ToStr(_)
ToStr(n) ==
    IF n < 10 THEN CharAt(DigitLetters, n + 1)
    ELSE ToStr(n \div 10) \o CharAt(DigitLetters, (n % 10) + 1)

SummaryNote(n) == "Summary of previous response (Query #" \o ToStr(n) \o ")"
BasedOnNote(n) == "Based on context from query #" \o ToStr(n)
ResultsNote(n) == "Results based on context from query #" \o ToStr(n)

(***************************************************************************)
(* Outcomes of the external providers.  A text-generation call either      *)
(* raises, returns an object without usable text, or returns text.         *)
(***************************************************************************)
Raise == [kind |-> "raise"]
NoText == [kind |-> "notext"]
Text(s) == [kind |-> "text", text |-> s]

ClassifierOutcomes ==
    {Raise, NoText, Text("specific"), Text(" Generic\n"), Text("IRRELEVANT"),
     Text("It is specific")}
RelevanceOutcomes == {Raise, NoText, Text(" Yes.\n"), Text("y"), Text("No")}
AnswerOutcomes == {Raise, NoText, Text(" A direct answer. ")}
SummaryOutcomes == {Raise, NoText, Text(" A structured summary.\n")}
DenseOutcomes == {Raise, [kind |-> "values", values |-> <<1, 2, 3>>]}
SparseOutcomes ==
    {Raise, [kind |-> "nodata"],
     [kind |-> "data", indices |-> <<7, 9>>, values |-> <<1, 2>>]}

(***************************************************************************)
(* gemini_helper.py and pinecone_helper.py: the helpers as functions of    *)
(* their argument and of the provider's outcome.                           *)
(***************************************************************************)
QueryLabels == {"irrelevant", "generic", "specific"}

\* a classifier that lets the query through when it cannot classify it
classify_query_type_open(resp) ==
    IF resp.kind # "text" THEN "specific"
    ELSE LET category == Lower(Strip(resp.text))
         IN  IF category \notin QueryLabels THEN "specific" ELSE category

classify_query_type(resp) ==
    IF resp.kind # "text" THEN "irrelevant"
    ELSE LET category == Lower(Strip(resp.text))
         IN  IF category \notin QueryLabels THEN "irrelevant" ELSE category

generate_generic_answer(resp) ==
    IF resp.kind # "text" THEN UnableAnswer ELSE Strip(resp.text)

generate_summary(resp) ==
    IF resp.kind # "text" THEN "" ELSE Strip(resp.text)

generate_dense_embedding(text, resp) ==
    IF Len(text) = 0 \/ Len(Strip(text)) = 0 THEN None
    ELSE IF resp.kind = "raise" THEN None
    ELSE Some(resp.values)

generate_sparse_embedding(text, resp) ==
    IF Len(text) = 0 \/ Len(Strip(text)) = 0 THEN None
    ELSE IF resp.kind # "data" THEN None
    ELSE Some([indices |-> resp.indices, values |-> resp.values])

\* one provider answer of check_followup_relevance_multi: the call returned
\* text (it did not raise, and the response has a text), and the text is
\* affirmative
HasUsableText(resp) == resp.kind = "text"

IsAffirmative(resp) ==
    /\ resp.kind = "text"
    /\ LET text == Lower(Strip(resp.text))
       IN  StartsWith(text, "yes") \/ StartsWith(text, "y")

(***************************************************************************)
(* search_patents: the tests on the query and on the history.              *)
(***************************************************************************)
\* the marker test alone, a turn without answer passing it
\* a filter that also drops the turns whose reply reports a failure
IsRelevantTurn_successful(turn) ==
    /\ turn.answer # None
    /\ Len(turn.answer[1]) > 0
    /\ ~Contains(Lower(turn.answer[1]), NotRelevantMarker)
    /\ ~Contains(Lower(turn.answer[1]), "error")
    /\ ~Contains(Lower(turn.answer[1]), "timeout")
    /\ ~Contains(Lower(turn.answer[1]), "no results found")

IsRelevantTurn_unanswered(turn) ==
    \/ turn.answer = None
    \/ ~Contains(Lower(turn.answer[1]), NotRelevantMarker)

IsRelevantTurn(turn) ==
    /\ turn.answer # None
    /\ Len(turn.answer[1]) > 0
    /\ ~Contains(Lower(turn.answer[1]), NotRelevantMarker)

RelevantTurns(history) == SelectSeq(history, IsRelevantTurn)

\* the terms matched as written, without lower-casing
ForceSpecific_cased(text) ==
    \E k \in 1..Len(technical_terms) : Contains(text, technical_terms[k])

ForceSpecific(text) ==
    LET lowered == Lower(text)
    IN  \E k \in 1..Len(technical_terms) :
            Contains(lowered, Lower(technical_terms[k]))

\* the words matched against the query as typed
IsSummaryRequest_cased(text) ==
    \E k \in 1..Len(summary_keywords) : Contains(text, summary_keywords[k])

IsSummaryRequest(text) ==
    LET lowered == Lower(text)
    IN  \E k \in 1..Len(summary_keywords) : Contains(lowered, summary_keywords[k])

AugmentedQuery(turn, text) ==
    "Previous Question: " \o turn.question \o "\nPrevious Answer: "
        \o OrEmpty(turn.answer) \o "\nFollow-up Question: " \o text

RECURSIVE JoinSpace(_)
JoinSpace(parts) ==
    IF Len(parts) = 0 THEN ""
    ELSE IF Len(parts) = 1 THEN parts[1]
    ELSE parts[1] \o " " \o JoinSpace(Tail(parts))

HasSummary(r) == Len(r.detailed_summary) > 0

\* only the first fetched record is looked at
CombinedText_first(rows) ==
    IF Len(rows) = 0 THEN "" ELSE rows[1].detailed_summary

CombinedText(rows) ==
    JoinSpace([i \in 1..Len(SelectSeq(rows, HasSummary)) |->
                  SelectSeq(rows, HasSummary)[i].detailed_summary])

(***************************************************************************)
(* The requests, the stored chunks and the index answers of the model.     *)
(***************************************************************************)
Queries ==
    {"What's the weather today?", "Can you summarize that?",
     " EXPLAIN the Sensor ", "rain gauge", "  "}

Turns ==
    {[question |-> "What is a neural network patent?",
      answer |-> Some("Answer about patent X")],
     [question |-> "Drone navigation?",
      answer |-> Some("Answer about patent Y")],
     [question |-> "Weather?",
      answer |-> Some("**Query Not Relevant:** " \o RejectionMessage)],
     [question |-> "Pending?", answer |-> None]}

Histories == UNION {[1..n -> Turns] : n \in 0..MaxHistory}

\* top_k: the smallest and the largest number of matches asked for
Requests ==
    [query : Queries, history : Histories, top_k : {1, MaxTopK},
     hybrid : BOOLEAN, summary : BOOLEAN]

DefaultRequest ==
    [query |-> "", history |-> <<>>, top_k |-> 5, hybrid |-> FALSE, summary |-> FALSE]

VectorIds == {"v1", "v2", "v3"}

InitialChunks ==
    [id \in {"v1", "v2"} |->
        [patent_number |-> IF id = "v1" THEN "US1" ELSE "US2",
         title |-> IF id = "v1" THEN "Cache line" ELSE "Drone",
         description |-> "desc", abstract |-> "abs", claims_text |-> "claims",
         detailed_summary |-> IF id = "v1" THEN "Summary one" ELSE ""]]

\* the orders in which the rows of a set of identifiers can come back
Orders(S) ==
    {f \in [1..Cardinality(S) -> S] : \A i, j \in 1..Cardinality(S) : i # j => f[i] # f[j]}

\* index.query: at most top_k matches, no identifier twice, best score first
\* (IndexOrder is the order of the scores)
IndexOrder == <<"v3", "v1", "v2">>

MatchLists(k) ==
    {LET Matched(v) == v \in S IN SelectSeq(IndexOrder, Matched) :
        S \in {T \in SUBSET VectorIds : Cardinality(T) <= k}}

(***************************************************************************)
(* State: the position of the handler (pc), its request and locals, the    *)
(* response it returns, the collaborator calls it has made for the current *)
(* request in order, each with its arguments and what it returned (calls), *)
(* and the Metadata Store table (patent_chunks).                           *)
(* The chat client (frontend/app.py): st.session_state.history and         *)
(* query_count, the locals api_history and summary of the script run that  *)
(* waits for the router, and the position of that run (client_pc).         *)
(* query_type holds query_type (first query) or current_query_type         *)
(* (follow-up); branch tells which of the three copies of the retrieval    *)
(* code is running: "first", "new" (unrelated new topic) or "followup".    *)
(***************************************************************************)
VARIABLES pc, request, query_text, relevant_turns, query_type, force_specific,
          scan_i, relevance_result, augmented_query, branch, dense_emb,
          sparse_emb, vector_ids, results, combined_text, response, calls,
          patent_chunks, session_history, query_count, api_history, summary,
          client_pc

\* The ingestion run (backend/data_loader.py, process_and_upsert_patents):
\* its position (ing_pc), the documents of the folder (file_paths), the
\* loop counters and locals of the source, the handle init_pinecone
\* returned (index), the Vector Index (index_vectors), the rows inserted
\* through the cursor and not yet committed (uncommitted), and the calls
\* the run has made, in order (ing_calls).
VARIABLES ing_pc, file_paths, file_idx, detailed_summary, chunks, chunk_idx,
          dense_embedding, sparse_embedding, vector_id, total_chunks, index,
          index_vectors, uncommitted, ing_calls

ingest_vars ==
    <<ing_pc, file_paths, file_idx, detailed_summary, chunks, chunk_idx,
      dense_embedding, sparse_embedding, vector_id, total_chunks, index,
      index_vectors, uncommitted, ing_calls>>

client_vars == <<session_history, query_count, api_history, summary, client_pc>>

vars ==
    <<pc, request, query_text, relevant_turns, query_type, force_specific,
      scan_i, relevance_result, augmented_query, branch, dense_emb,
      sparse_emb, vector_ids, results, combined_text, response, calls,
      patent_chunks, session_history, query_count, api_history, summary,
      client_pc, ing_pc, file_paths, file_idx, detailed_summary, chunks,
      chunk_idx, dense_embedding, sparse_embedding, vector_id, total_chunks,
      index, index_vectors, uncommitted, ing_calls>>

NotRelated == [is_related |-> FALSE, related_to_index |-> None, related_turn |-> None]

NoResponse == <<>>

\* no ingestion run is going on
NoIngestion ==
    /\ ing_pc = "off"
    /\ file_paths = <<>>
    /\ file_idx = 0
    /\ detailed_summary = ""
    /\ chunks = <<>>
    /\ chunk_idx = 0
    /\ dense_embedding = None
    /\ sparse_embedding = None
    /\ vector_id = ""
    /\ total_chunks = 0
    /\ index = None
    /\ index_vectors = <<>>
    /\ uncommitted = <<>>
    /\ ing_calls = <<>>

Init ==
    /\ pc = "idle"
    /\ request = DefaultRequest
    /\ query_text = ""
    /\ relevant_turns = <<>>
    /\ query_type = ""
    /\ force_specific = FALSE
    /\ scan_i = 0
    /\ relevance_result = NotRelated
    /\ augmented_query = ""
    /\ branch = ""
    /\ dense_emb = None
    /\ sparse_emb = None
    /\ vector_ids = <<>>
    /\ results = <<>>
    /\ combined_text = ""
    /\ response = NoResponse
    /\ calls = <<>>
    /\ patent_chunks = InitialChunks
    /\ session_history = <<>>
    /\ query_count = 0
    /\ api_history = <<>>
    /\ summary = FALSE
    /\ client_pc = "input"
    /\ NoIngestion

\* the two rejection dicts: first query, and follow-up
\* the first-query rejection carrying the follow-up's relation flag
FirstRejection_flagged ==
    [results |-> <<>>, message |-> RejectionMessage, related |-> FALSE]

FirstRejection == [results |-> <<>>, message |-> RejectionMessage]
\* the follow-up rejection without its relation flag
FollowupRejection_unflagged == [results |-> <<>>, message |-> RejectionMessage]

FollowupRejection == [results |-> <<>>, message |-> RejectionMessage, related |-> FALSE]

\* the text that is embedded and that generation is asked about
\* the raw query on every branch
SearchText_raw == query_text

SearchText == IF branch = "followup" THEN augmented_query ELSE query_text

\* the handler returns resp
ReturnResponse(resp) ==
    /\ response' = resp
    /\ pc' = "done"

Call(c) == calls' = Append(calls, c)

(***************************************************************************)
(* search_patents, entry: strip the query, filter the history, pick the    *)
(* branch (first query, summary request, follow-up).                       *)
(***************************************************************************)
search_patents_begin(req) ==
    /\ pc = "idle"
    /\ request' = req
    /\ query_text' = Strip(req.query)
    /\ relevant_turns' = RelevantTurns(req.history)
    /\ IF Len(relevant_turns') = 0
       THEN pc' = "classify_first" /\ branch' = "first"
       ELSE /\ branch' = ""
            /\ IF IsSummaryRequest(query_text')
               THEN pc' = "summary_request"
               ELSE pc' = "classify_followup"
    /\ UNCHANGED <<query_type, force_specific, scan_i, relevance_result,
                   augmented_query, dense_emb, sparse_emb, vector_ids, results,
                   combined_text, response, calls, patent_chunks>>

(***************************************************************************)
(* First query: classify, apply the technical-term override, dispatch.     *)
(***************************************************************************)
FirstClassify(resp) ==
    /\ pc = "classify_first"
    /\ query_type' = classify_query_type(resp)
    /\ Call([fn |-> "classify_query_type", query |-> query_text, ret |-> query_type'])
    /\ force_specific' = ForceSpecific(query_text)
    /\ IF query_type' = "irrelevant" /\ ~force_specific'
       THEN ReturnResponse(FirstRejection)
       ELSE /\ pc' = IF query_type' = "generic" /\ ~force_specific'
                     THEN "generic" ELSE "dense"
            /\ UNCHANGED response
    /\ UNCHANGED <<request, query_text, relevant_turns, scan_i, relevance_result,
                   augmented_query, branch, dense_emb, sparse_emb, vector_ids,
                   results, combined_text, patent_chunks>>

(***************************************************************************)
(* Follow-up, priority check: summary request over the last relevant turn. *)
(***************************************************************************)
SummaryRequest(resp) ==
    /\ pc = "summary_request"
    /\ LET last_relevant_turn == relevant_turns[Len(relevant_turns)]
           summary_text == generate_summary(resp)
       IN  /\ Call([fn |-> "generate_summary", query |-> query_text,
                    result |-> OrEmpty(last_relevant_turn.answer),
                    ret |-> summary_text])
           /\ ReturnResponse([results |-> <<>>, live_summary |-> summary_text,
                              related |-> TRUE,
                              note |-> SummaryNote(Len(relevant_turns))])
    /\ UNCHANGED <<request, query_text, relevant_turns, query_type, force_specific,
                   scan_i, relevance_result, augmented_query, branch, dense_emb,
                   sparse_emb, vector_ids, results, combined_text, patent_chunks>>

(***************************************************************************)
(* Follow-up: classify the raw query; reject it or start the scan.         *)
(***************************************************************************)
FollowupClassify(resp) ==
    /\ pc = "classify_followup"
    /\ query_type' = classify_query_type(resp)
    /\ Call([fn |-> "classify_query_type", query |-> query_text, ret |-> query_type'])
    /\ force_specific' = ForceSpecific(query_text)
    /\ IF query_type' = "irrelevant" /\ ~force_specific'
       THEN /\ ReturnResponse(FollowupRejection)
            /\ UNCHANGED scan_i
       ELSE /\ pc' = "scan"
            /\ scan_i' = 0
            /\ UNCHANGED response
    /\ UNCHANGED <<request, query_text, relevant_turns, relevance_result,
                   augmented_query, branch, dense_emb, sparse_emb, vector_ids,
                   results, combined_text, patent_chunks>>

(***************************************************************************)
(* check_followup_relevance_multi: one iteration of the loop over          *)
(* reversed(relevant_turns), and what search_patents does with the result  *)
(* when the loop ends.                                                     *)
(***************************************************************************)
ScanTurn(resp) ==
    /\ pc = "scan"
    /\ LET i == scan_i
           n == Len(relevant_turns)
           turn == Reversed(relevant_turns)[i + 1]
       IN  /\ Call([fn |-> "relevance_check", turn |-> turn,
                    position |-> n - 1 - i, new_question |-> query_text,
                    usable |-> HasUsableText(resp), ret |-> IsAffirmative(resp)])
           /\ IF IsAffirmative(resp)
              THEN /\ relevance_result' =
                          [is_related |-> TRUE,
                           related_to_index |-> Some(n - 1 - i),
                           related_turn |-> Some(turn)]
                   /\ augmented_query' = AugmentedQuery(turn, query_text)
                   /\ branch' = "followup"
                   /\ pc' = "reclassify"
                   /\ UNCHANGED scan_i
              ELSE IF i + 1 < n
              THEN /\ scan_i' = i + 1
                   /\ UNCHANGED <<pc, relevance_result, augmented_query, branch>>
              ELSE /\ relevance_result' = NotRelated
                   /\ branch' = "new"
                   /\ pc' = IF query_type = "generic" /\ ~force_specific
                            THEN "generic" ELSE "dense"
                   /\ UNCHANGED <<scan_i, augmented_query>>
    /\ UNCHANGED <<request, query_text, relevant_turns, query_type, force_specific,
                   dense_emb, sparse_emb, vector_ids, results, combined_text,
                   response, patent_chunks>>

(***************************************************************************)
(* Related follow-up: classify the augmented query.                        *)
(***************************************************************************)
Reclassify(resp) ==
    /\ pc = "reclassify"
    /\ LET followup_query_type == classify_query_type(resp)
       IN  /\ Call([fn |-> "classify_query_type", query |-> augmented_query,
                    ret |-> followup_query_type])
           /\ pc' = IF followup_query_type = "generic" THEN "generic" ELSE "dense"
    /\ UNCHANGED <<request, query_text, relevant_turns, query_type, force_specific,
                   scan_i, relevance_result, augmented_query, branch, dense_emb,
                   sparse_emb, vector_ids, results, combined_text, response,
                   patent_chunks>>

(***************************************************************************)
(* The response dicts of the three branches.                               *)
(***************************************************************************)
\* the number counted in the history as sent, skipped turns included
RelatedNumber_in_history ==
    CHOOSE p \in DOMAIN request.history :
        /\ request.history[p] = relevance_result.related_turn[1]
        /\ \A q \in DOMAIN request.history :
              request.history[q] = relevance_result.related_turn[1] => q <= p

RelatedNumber == relevance_result.related_to_index[1] + 1

\* the first-query direct answer stored under the summary key
GenericResponse_miskeyed(answer) ==
    CASE branch = "first" ->
            [results |-> <<>>, message |-> TooGeneralMessage, live_summary |-> answer]
      [] branch = "new" ->
            [results |-> <<>>, message |-> NewTopicMessage, generic_answer |-> answer,
             related |-> FALSE]
      [] branch = "followup" ->
            [results |-> <<>>, message |-> FollowupGenericMessage,
             generic_answer |-> answer, related |-> TRUE,
             note |-> BasedOnNote(RelatedNumber)]

GenericResponse(answer) ==
    CASE branch = "first" ->
            [results |-> <<>>, message |-> TooGeneralMessage, generic_answer |-> answer]
      [] branch = "new" ->
            [results |-> <<>>, message |-> NewTopicMessage, generic_answer |-> answer,
             related |-> FALSE]
      [] branch = "followup" ->
            [results |-> <<>>, message |-> FollowupGenericMessage,
             generic_answer |-> answer, related |-> TRUE,
             note |-> BasedOnNote(RelatedNumber)]

\* the new-topic fallback copied from the first-query branch, flag forgotten
FallbackResponse_unflagged(answer) ==
    CASE branch \in {"first", "new"} ->
            [results |-> <<>>, message |-> NoMatchFirstMessage, generic_answer |-> answer]
      [] branch = "followup" ->
            [results |-> <<>>, message |-> NoMatchFollowupMessage,
             generic_answer |-> answer, related |-> TRUE,
             note |-> BasedOnNote(RelatedNumber)]

FallbackResponse(answer) ==
    CASE branch = "first" ->
            [results |-> <<>>, message |-> NoMatchFirstMessage, generic_answer |-> answer]
      [] branch = "new" ->
            [results |-> <<>>, message |-> NoMatchNewMessage, generic_answer |-> answer,
             related |-> FALSE]
      [] branch = "followup" ->
            [results |-> <<>>, message |-> NoMatchFollowupMessage,
             generic_answer |-> answer, related |-> TRUE,
             note |-> BasedOnNote(RelatedNumber)]

\* the new-topic summary response without its relation flag
SummaryResponse_unflagged(rows, live_summary) ==
    CASE branch \in {"first", "new"} -> [results |-> rows, live_summary |-> live_summary]
      [] branch = "followup" ->
            [results |-> rows, live_summary |-> live_summary, related |-> TRUE,
             note |-> ResultsNote(RelatedNumber)]

SummaryResponse(rows, live_summary) ==
    CASE branch = "first" -> [results |-> rows, live_summary |-> live_summary]
      [] branch = "new" ->
            [results |-> rows, live_summary |-> live_summary, related |-> FALSE]
      [] branch = "followup" ->
            [results |-> rows, live_summary |-> live_summary, related |-> TRUE,
             note |-> ResultsNote(RelatedNumber)]

\* the new-topic results copied from the first-query branch, flag forgotten
ResultsResponse_unflagged(rows) ==
    CASE branch \in {"first", "new"} -> [results |-> rows]
      [] branch = "followup" ->
            [results |-> rows, related |-> TRUE, note |-> ResultsNote(RelatedNumber)]

ResultsResponse(rows) ==
    CASE branch = "first" -> [results |-> rows]
      [] branch = "new" -> [results |-> rows, related |-> FALSE]
      [] branch = "followup" ->
            [results |-> rows, related |-> TRUE, note |-> ResultsNote(RelatedNumber)]

(***************************************************************************)
(* Generic query: a direct answer, no retrieval.                           *)
(***************************************************************************)
GenericAnswer(resp) ==
    /\ pc = "generic"
    /\ LET generic_answer == generate_generic_answer(resp)
       IN  /\ Call([fn |-> "generate_generic_answer", query |-> SearchText,
                    ret |-> generic_answer])
           /\ ReturnResponse(GenericResponse(generic_answer))
    /\ UNCHANGED <<request, query_text, relevant_turns, query_type, force_specific,
                   scan_i, relevance_result, augmented_query, branch, dense_emb,
                   sparse_emb, vector_ids, results, combined_text, patent_chunks>>

(***************************************************************************)
(* Retrieval: dense embedding, optional sparse embedding, index query,     *)
(* no-match fallback, metadata fetch, optional final summary.              *)
(***************************************************************************)
\* the embedding used without the test for a failed embedding
DenseEmbedding_unchecked(resp) ==
    /\ pc = "dense"
    /\ dense_emb' = generate_dense_embedding(SearchText, resp)
    /\ Call([fn |-> "generate_dense_embedding", text |-> SearchText, ret |-> dense_emb'])
    /\ pc' = IF request.hybrid THEN "sparse" ELSE "query"
    /\ UNCHANGED <<request, query_text, relevant_turns, query_type, force_specific,
                   scan_i, relevance_result, augmented_query, branch, sparse_emb,
                   vector_ids, results, combined_text, response, patent_chunks>>

DenseEmbedding(resp) ==
    /\ pc = "dense"
    /\ dense_emb' = generate_dense_embedding(SearchText, resp)
    /\ Call([fn |-> "generate_dense_embedding", text |-> SearchText, ret |-> dense_emb'])
    /\ IF dense_emb' = None \/ Len(dense_emb'[1]) = 0
       THEN ReturnResponse([error |-> DenseFailedError])
       ELSE /\ pc' = IF request.hybrid THEN "sparse" ELSE "query"
            /\ UNCHANGED response
    /\ UNCHANGED <<request, query_text, relevant_turns, query_type, force_specific,
                   scan_i, relevance_result, augmented_query, branch, sparse_emb,
                   vector_ids, results, combined_text, patent_chunks>>

SparseEmbedding(resp) ==
    /\ pc = "sparse"
    /\ sparse_emb' = generate_sparse_embedding(SearchText, resp)
    /\ Call([fn |-> "generate_sparse_embedding", text |-> SearchText, ret |-> sparse_emb'])
    /\ pc' = "query"
    /\ UNCHANGED <<request, query_text, relevant_turns, query_type, force_specific,
                   scan_i, relevance_result, augmented_query, branch, dense_emb,
                   vector_ids, results, combined_text, response, patent_chunks>>

\* index.query raises, or answers with a list of matches
IndexOutcomes(k) ==
    {Raise} \cup {[kind |-> "matches", ids |-> m] : m \in MatchLists(k)}

\* the index call made outside the try block: its exception leaves the handler
IndexQuery_uncaught(out) ==
    /\ pc = "query"
    /\ Call([fn |-> "index.query", vector |-> dense_emb,
             with_sparse |-> request.hybrid, sparse_vector |-> sparse_emb,
             top_k |-> request.top_k, ret |-> out])
    /\ IF out.kind = "raise"
       THEN /\ pc' = "raised"
            /\ UNCHANGED <<vector_ids, response>>
       ELSE /\ vector_ids' = out.ids
            /\ pc' = IF Len(vector_ids') = 0 THEN "fallback" ELSE "fetch"
            /\ UNCHANGED response
    /\ UNCHANGED <<request, query_text, relevant_turns, query_type, force_specific,
                   scan_i, relevance_result, augmented_query, branch, dense_emb,
                   sparse_emb, results, combined_text, patent_chunks>>

IndexQuery(out) ==
    /\ pc = "query"
    /\ Call([fn |-> "index.query", vector |-> dense_emb,
             with_sparse |-> request.hybrid, sparse_vector |-> sparse_emb,
             top_k |-> request.top_k, ret |-> out])
    /\ IF out.kind = "raise"
       THEN /\ ReturnResponse([error |-> "index query failed"])
            /\ UNCHANGED vector_ids
       ELSE /\ vector_ids' = out.ids
            /\ pc' = IF Len(vector_ids') = 0 THEN "fallback" ELSE "fetch"
            /\ UNCHANGED response
    /\ UNCHANGED <<request, query_text, relevant_turns, query_type, force_specific,
                   scan_i, relevance_result, augmented_query, branch, dense_emb,
                   sparse_emb, results, combined_text, patent_chunks>>

Fallback(resp) ==
    /\ pc = "fallback"
    /\ LET fallback_answer == generate_generic_answer(resp)
       IN  /\ Call([fn |-> "generate_generic_answer", query |-> SearchText,
                    ret |-> fallback_answer])
           /\ ReturnResponse(FallbackResponse(fallback_answer))
    /\ UNCHANGED <<request, query_text, relevant_turns, query_type, force_specific,
                   scan_i, relevance_result, augmented_query, branch, dense_emb,
                   sparse_emb, vector_ids, results, combined_text, patent_chunks>>

\* fetch_metadata_from_sqlite: the rows whose key is in vector_ids, one per
\* stored key, in an order the query does not fix; or the store raises
Row(id) ==
    [vector_id |-> id, patent_number |-> patent_chunks[id].patent_number,
     title |-> patent_chunks[id].title,
     detailed_summary |-> patent_chunks[id].detailed_summary]

\* the query without its WHERE clause: every row of the table
fetch_metadata_from_sqlite_all(ids) ==
    {[i \in 1..Len(o) |-> Row(o[i])] : o \in Orders(DOMAIN patent_chunks)}

fetch_metadata_from_sqlite(ids) ==
    LET found == {ids[i] : i \in 1..Len(ids)} \cap DOMAIN patent_chunks
    IN  {[i \in 1..Len(o) |-> Row(o[i])] : o \in Orders(found)}

FetchOutcomes(ids) ==
    {Raise} \cup {[kind |-> "rows", rows |-> r] : r \in fetch_metadata_from_sqlite(ids)}

FetchMetadata(out) ==
    /\ pc = "fetch"
    /\ Call([fn |-> "fetch_metadata_from_sqlite", vector_ids |-> vector_ids, ret |-> out])
    /\ IF out.kind = "raise"
       THEN /\ ReturnResponse([error |-> "metadata store failed"])
            /\ UNCHANGED <<results, combined_text>>
       ELSE /\ results' = out.rows
            /\ IF request.summary
               THEN /\ combined_text' = CombinedText(results')
                    /\ IF Len(Strip(combined_text')) > 0
                       THEN pc' = "final_summary" /\ UNCHANGED response
                       ELSE ReturnResponse(SummaryResponse(results', NoContentSummary))
               ELSE /\ ReturnResponse(ResultsResponse(results'))
                    /\ UNCHANGED combined_text
    /\ UNCHANGED <<request, query_text, relevant_turns, query_type, force_specific,
                   scan_i, relevance_result, augmented_query, branch, dense_emb,
                   sparse_emb, vector_ids, patent_chunks>>

FinalSummary(resp) ==
    /\ pc = "final_summary"
    /\ LET live_summary == generate_summary(resp)
       IN  /\ Call([fn |-> "generate_summary", query |-> SearchText,
                    result |-> combined_text, ret |-> live_summary])
           /\ ReturnResponse(SummaryResponse(results, live_summary))
    /\ UNCHANGED <<request, query_text, relevant_turns, query_type, force_specific,
                   scan_i, relevance_result, augmented_query, branch, dense_emb,
                   sparse_emb, vector_ids, results, combined_text, patent_chunks>>

(***************************************************************************)
(* The response is delivered; the handler's locals are gone and the        *)
(* server waits for the next request.                                      *)
(***************************************************************************)
search_patents_return ==
    /\ pc = "done"
    /\ pc' = "idle"
    /\ request' = DefaultRequest
    /\ query_text' = ""
    /\ relevant_turns' = <<>>
    /\ query_type' = ""
    /\ force_specific' = FALSE
    /\ scan_i' = 0
    /\ relevance_result' = NotRelated
    /\ augmented_query' = ""
    /\ branch' = ""
    /\ dense_emb' = None
    /\ sparse_emb' = None
    /\ vector_ids' = <<>>
    /\ results' = <<>>
    /\ combined_text' = ""
    /\ response' = NoResponse
    /\ calls' = <<>>
    /\ UNCHANGED patent_chunks

\* The router alone, serving any request.  Each disjunct names the handler
\* position first, so that the outcomes of a call are enumerated only where
\* the call is made.
Next ==
    \/ pc = "idle" /\ \E req \in Requests : search_patents_begin(req)
       /\ UNCHANGED <<client_vars, ingest_vars>>
    \/ pc = "classify_first" /\ \E resp \in ClassifierOutcomes : FirstClassify(resp)
       /\ UNCHANGED <<client_vars, ingest_vars>>
    \/ pc = "summary_request" /\ \E resp \in SummaryOutcomes : SummaryRequest(resp)
       /\ UNCHANGED <<client_vars, ingest_vars>>
    \/ pc = "classify_followup" /\ \E resp \in ClassifierOutcomes : FollowupClassify(resp)
       /\ UNCHANGED <<client_vars, ingest_vars>>
    \/ pc = "scan" /\ \E resp \in RelevanceOutcomes : ScanTurn(resp)
       /\ UNCHANGED <<client_vars, ingest_vars>>
    \/ pc = "reclassify" /\ \E resp \in ClassifierOutcomes : Reclassify(resp)
       /\ UNCHANGED <<client_vars, ingest_vars>>
    \/ pc = "generic" /\ \E resp \in AnswerOutcomes : GenericAnswer(resp)
       /\ UNCHANGED <<client_vars, ingest_vars>>
    \/ pc = "dense" /\ \E resp \in DenseOutcomes : DenseEmbedding(resp)
       /\ UNCHANGED <<client_vars, ingest_vars>>
    \/ pc = "sparse" /\ \E resp \in SparseOutcomes : SparseEmbedding(resp)
       /\ UNCHANGED <<client_vars, ingest_vars>>
    \/ pc = "query" /\ \E out \in IndexOutcomes(request.top_k) : IndexQuery(out)
       /\ UNCHANGED <<client_vars, ingest_vars>>
    \/ pc = "fallback" /\ \E resp \in AnswerOutcomes : Fallback(resp)
       /\ UNCHANGED <<client_vars, ingest_vars>>
    \/ pc = "fetch" /\ \E out \in FetchOutcomes(vector_ids) : FetchMetadata(out)
       /\ UNCHANGED <<client_vars, ingest_vars>>
    \/ pc = "final_summary" /\ \E resp \in SummaryOutcomes : FinalSummary(resp)
       /\ UNCHANGED <<client_vars, ingest_vars>>
    \/ search_patents_return
       /\ UNCHANGED <<client_vars, ingest_vars>>

Spec == Init /\ [][Next]_vars

(***************************************************************************)
(* The router while the classification provider is failing: each call of   *)
(* gemini_model.generate_content made by classify_query_type raises,       *)
(* returns a response without text, or returns text that is no label.      *)
(* No classification is then 'generic', so the handler never reaches the   *)
(* direct-answer return of l.128-130 and l.196-198.                        *)
(***************************************************************************)
FailingClassifierOutcomes == {Raise, NoText, Text("It is specific")}

ClassifierDownNext ==
    \/ pc = "idle" /\ \E req \in Requests : search_patents_begin(req)
       /\ UNCHANGED <<client_vars, ingest_vars>>
    \/ pc = "classify_first"
       /\ \E resp \in FailingClassifierOutcomes : FirstClassify(resp)
       /\ UNCHANGED <<client_vars, ingest_vars>>
    \/ pc = "summary_request" /\ \E resp \in SummaryOutcomes : SummaryRequest(resp)
       /\ UNCHANGED <<client_vars, ingest_vars>>
    \/ pc = "classify_followup"
       /\ \E resp \in FailingClassifierOutcomes : FollowupClassify(resp)
       /\ UNCHANGED <<client_vars, ingest_vars>>
    \/ pc = "scan" /\ \E resp \in RelevanceOutcomes : ScanTurn(resp)
       /\ UNCHANGED <<client_vars, ingest_vars>>
    \/ pc = "reclassify"
       /\ \E resp \in FailingClassifierOutcomes : Reclassify(resp)
       /\ UNCHANGED <<client_vars, ingest_vars>>
    \/ pc = "dense" /\ \E resp \in DenseOutcomes : DenseEmbedding(resp)
       /\ UNCHANGED <<client_vars, ingest_vars>>
    \/ pc = "sparse" /\ \E resp \in SparseOutcomes : SparseEmbedding(resp)
       /\ UNCHANGED <<client_vars, ingest_vars>>
    \/ pc = "query" /\ \E out \in IndexOutcomes(request.top_k) : IndexQuery(out)
       /\ UNCHANGED <<client_vars, ingest_vars>>
    \/ pc = "fallback" /\ \E resp \in AnswerOutcomes : Fallback(resp)
       /\ UNCHANGED <<client_vars, ingest_vars>>
    \/ pc = "fetch" /\ \E out \in FetchOutcomes(vector_ids) : FetchMetadata(out)
       /\ UNCHANGED <<client_vars, ingest_vars>>
    \/ pc = "final_summary" /\ \E resp \in SummaryOutcomes : FinalSummary(resp)
       /\ UNCHANGED <<client_vars, ingest_vars>>
    \/ search_patents_return
       /\ UNCHANGED <<client_vars, ingest_vars>>

ClassifierDownSpec == Init /\ [][ClassifierDownNext]_vars

TypeOK ==
    /\ pc \in {"idle", "classify_first", "summary_request", "classify_followup",
               "scan", "reclassify", "generic", "dense", "sparse", "query",
               "fallback", "fetch", "final_summary", "done"}
    /\ branch \in {"", "first", "new", "followup"}
    /\ query_type \in QueryLabels \cup {""}

(***************************************************************************)
(* frontend/app.py: the chat client.  The literals are those of the        *)
(* source with the leading pictograph of each written as a bracketed word. *)
(***************************************************************************)
FollowupBanner ==
    "[link] **Follow-up Query Detected:** This question is related to your previous query and will build upon the context."
NewTopicBanner ==
    "[info] **New Topic Detected:** This appears to be a new question unrelated to previous queries."
NoteLabel == "[note] **Note:** "
NotRelevantLabel == "[no] **Query Not Relevant:** "
SystemMessageLabel == "[note] **System Message:** "
ResponseLabel == "[bot] **Response:** "
SummaryLabel == "[page] **Comprehensive Summary:**\n\n"
ResultsLabel == "[search] **Patent Search Results:**\n"
NoResultsMessage ==
    "[hm] **No Results Found:** No relevant patents were found for your query. Try rephrasing or using different keywords."
timeout_msg ==
    "[clock] **Request Timeout:** The search is taking longer than expected. Please try again or simplify your query."
connection_msg ==
    "[plug] **Connection Error:** Unable to connect to the patent search API. Please check your connection and try again."
DefaultTopK == 5

UserTurn(content) == [role |-> "user", content |-> content]
AssistantTurn(content) == [role |-> "assistant", content |-> content]

\* the loop keeping the oldest unanswered question instead of the latest
RECURSIVE PairTurns_first(_, _)
PairTurns_first(turns, last_user_q) ==
    IF Len(turns) = 0 THEN <<>>
    ELSE LET turn == Head(turns)
         IN  IF turn.role = "user"
             THEN PairTurns_first(Tail(turns),
                                  IF last_user_q = None THEN Some(turn.content)
                                  ELSE last_user_q)
             ELSE IF turn.role = "assistant" /\ last_user_q # None
                                             /\ Len(last_user_q[1]) > 0
             THEN <<[question |-> last_user_q[1], answer |-> Some(turn.content)]>>
                      \o PairTurns_first(Tail(turns), None)
             ELSE PairTurns_first(Tail(turns), last_user_q)

\* l.282-289: the loop over st.session_state.history[:-1]
RECURSIVE PairTurns(_, _)
PairTurns(turns, last_user_q) ==
    IF Len(turns) = 0 THEN <<>>
    ELSE LET turn == Head(turns)
         IN  IF turn.role = "user"
             THEN PairTurns(Tail(turns), Some(turn.content))
             ELSE IF turn.role = "assistant" /\ last_user_q # None
                                             /\ Len(last_user_q[1]) > 0
             THEN <<[question |-> last_user_q[1], answer |-> Some(turn.content)]>>
                      \o PairTurns(Tail(turns), None)
             ELSE PairTurns(Tail(turns), last_user_q)

ApiHistory(turns) == PairTurns(SubSeq(turns, 1, Len(turns) - 1), None)

RECURSIVE JoinParts(_)
JoinParts(parts) ==
    IF Len(parts) = 0 THEN ""
    ELSE IF Len(parts) = 1 THEN parts[1]
    ELSE parts[1] \o "\n\n" \o JoinParts(Tail(parts))

ResultText(idx, doc) ==
    "**#" \o ToStr(idx) \o " " \o doc.title \o "**\n"
        \o "*Patent Number: " \o doc.patent_number \o "*\n\n"
        \o doc.detailed_summary \o "\n"

\* l.311-319: relation banner and provenance note
BannerParts(data, sent_history) ==
    IF Len(sent_history) > 0 /\ "related" \in DOMAIN data
    THEN <<IF data.related THEN FollowupBanner ELSE NewTopicBanner>>
    ELSE <<>>

NoteParts(data) ==
    IF "note" \in DOMAIN data /\ data.note # ""
    THEN <<NoteLabel \o data.note>>
    ELSE <<>>

\* a rejection shown by its label alone, the router's message left out
BodyParts_label_only(data, want_summary) ==
    IF "message" \in DOMAIN data /\ Contains(Lower(data.message), "not relevant")
    THEN <<NotRelevantLabel>>
    ELSE IF "generic_answer" \in DOMAIN data
    THEN (IF "message" \in DOMAIN data
          THEN <<SystemMessageLabel \o data.message>> ELSE <<>>)
             \o <<ResponseLabel \o data.generic_answer>>
    ELSE IF want_summary /\ "live_summary" \in DOMAIN data /\ data.live_summary # ""
    THEN <<SummaryLabel \o data.live_summary>>
    ELSE IF "results" \in DOMAIN data /\ Len(data.results) > 0
    THEN <<ResultsLabel>>
             \o [idx \in 1..Len(data.results) |-> ResultText(idx, data.results[idx])]
    ELSE <<NoResultsMessage>>

\* l.322-338: the body, first match
BodyParts(data, want_summary) ==
    IF "message" \in DOMAIN data /\ Contains(Lower(data.message), "not relevant")
    THEN <<NotRelevantLabel \o data.message>>
    ELSE IF "generic_answer" \in DOMAIN data
    THEN (IF "message" \in DOMAIN data
          THEN <<SystemMessageLabel \o data.message>> ELSE <<>>)
             \o <<ResponseLabel \o data.generic_answer>>
    ELSE IF want_summary /\ "live_summary" \in DOMAIN data /\ data.live_summary # ""
    THEN <<SummaryLabel \o data.live_summary>>
    ELSE IF "results" \in DOMAIN data /\ Len(data.results) > 0
    THEN <<ResultsLabel>>
             \o [idx \in 1..Len(data.results) |-> ResultText(idx, data.results[idx])]
    ELSE <<NoResultsMessage>>

NotBlank(part) == Len(Strip(part)) > 0

\* l.306-341: reply_text of a 200 response
Render(data, sent_history, want_summary) ==
    JoinParts(SelectSeq(BannerParts(data, sent_history) \o NoteParts(data)
                            \o BodyParts(data, want_summary),
                        NotBlank))

(***************************************************************************)
(* One script run of the client per submitted question: l.276-303 up to    *)
(* the POST (Submit), then l.305-348 when the router's response arrives    *)
(* (Receive), or l.356-366 when the POST fails (RequestFails).  A run can  *)
(* also be stopped by Streamlit before it appends a reply (RunStopped):    *)
(* the question stays in the history without assistant turn.               *)
(***************************************************************************)
SessionQueries == {"Drone patents?", "Can you summarize that?"}
\* l.203-206: the hybrid checkbox, left as it is when the page loads
HybridDefault == TRUE

Submit(query, hybrid, want_summary) ==
    /\ client_pc = "input"
    /\ query_count < MaxQueries
    /\ Len(query) > 0
    /\ session_history' = Append(session_history, UserTurn(query))
    /\ query_count' = query_count + 1
    /\ api_history' = ApiHistory(session_history')
    /\ summary' = want_summary
    /\ search_patents_begin([query |-> query, history |-> api_history',
                             top_k |-> DefaultTopK, hybrid |-> hybrid,
                             summary |-> want_summary])
    /\ client_pc' = "waiting"

Receive ==
    /\ client_pc = "waiting"
    /\ search_patents_return
    /\ session_history' =
           Append(session_history, AssistantTurn(Render(response, api_history, summary)))
    /\ api_history' = <<>>
    /\ summary' = FALSE
    /\ client_pc' = "input"
    /\ UNCHANGED query_count

\* the request is given up: what the handler was doing is lost
DropRequest ==
    /\ pc' = "idle"
    /\ request' = DefaultRequest
    /\ query_text' = ""
    /\ relevant_turns' = <<>>
    /\ query_type' = ""
    /\ force_specific' = FALSE
    /\ scan_i' = 0
    /\ relevance_result' = NotRelated
    /\ augmented_query' = ""
    /\ branch' = ""
    /\ dense_emb' = None
    /\ sparse_emb' = None
    /\ vector_ids' = <<>>
    /\ results' = <<>>
    /\ combined_text' = ""
    /\ response' = NoResponse
    /\ calls' = <<>>
    /\ UNCHANGED patent_chunks

RequestFails(msg) ==
    /\ client_pc = "waiting"
    /\ DropRequest
    /\ session_history' = Append(session_history, AssistantTurn(msg))
    /\ api_history' = <<>>
    /\ summary' = FALSE
    /\ client_pc' = "input"
    /\ UNCHANGED query_count

RunStopped ==
    /\ client_pc = "waiting"
    /\ DropRequest
    /\ api_history' = <<>>
    /\ summary' = FALSE
    /\ client_pc' = "input"
    /\ UNCHANGED <<session_history, query_count>>

\* l.231-235: the Clear Chat History button
ClearChat ==
    /\ client_pc = "input"
    /\ pc = "idle"
    /\ Len(session_history) > 0
    /\ session_history' = <<>>
    /\ query_count' = 0
    /\ UNCHANGED <<pc, request, query_text, relevant_turns, query_type,
                   force_specific, scan_i, relevance_result, augmented_query,
                   branch, dense_emb, sparse_emb, vector_ids, results,
                   combined_text, response, calls, patent_chunks, api_history,
                   summary, client_pc>>

(***************************************************************************)
(* A chat session: the client and the router it talks to.  The providers   *)
(* answer from subsets of their outcomes, and a POST that fails fails by   *)
(* timeout.                                                                *)
(***************************************************************************)
SessionClassifierOutcomes == {Raise, Text("specific"), Text(" Generic\n")}
SessionRelevanceOutcomes == {Text("y"), Text("No")}
SessionAnswerOutcomes == {Text(" A direct answer. ")}
SessionReclassifierOutcomes == {Text("specific"), Text(" Generic\n")}
SessionSummaryOutcomes == {Text(" A structured summary.\n")}
SessionSparseOutcomes == {[kind |-> "data", indices |-> <<7, 9>>, values |-> <<1, 2>>]}
SessionIndexOutcomes(k) ==
    {out \in IndexOutcomes(k) :
        out.kind = "matches" /\ out.ids \in {<<>>, <<"v1">>}}
SessionFailures == {timeout_msg}
SessionFetchOutcomes(ids) == {out \in FetchOutcomes(ids) : out.kind = "rows"}

SessionNext ==
    \/ client_pc = "input" /\ pc = "idle"
       /\ \E query \in SessionQueries, want_summary \in BOOLEAN :
              Submit(query, HybridDefault, want_summary)
       /\ UNCHANGED ingest_vars
    \/ pc = "classify_first"
       /\ \E resp \in SessionClassifierOutcomes : FirstClassify(resp)
       /\ UNCHANGED <<client_vars, ingest_vars>>
    \/ pc = "summary_request"
       /\ \E resp \in SessionSummaryOutcomes : SummaryRequest(resp)
       /\ UNCHANGED <<client_vars, ingest_vars>>
    \/ pc = "classify_followup"
       /\ \E resp \in SessionClassifierOutcomes : FollowupClassify(resp)
       /\ UNCHANGED <<client_vars, ingest_vars>>
    \/ pc = "scan" /\ \E resp \in SessionRelevanceOutcomes : ScanTurn(resp)
       /\ UNCHANGED <<client_vars, ingest_vars>>
    \/ pc = "reclassify"
       /\ \E resp \in SessionReclassifierOutcomes : Reclassify(resp)
       /\ UNCHANGED <<client_vars, ingest_vars>>
    \/ pc = "generic" /\ \E resp \in SessionAnswerOutcomes : GenericAnswer(resp)
       /\ UNCHANGED <<client_vars, ingest_vars>>
    \/ pc = "dense" /\ \E resp \in DenseOutcomes : DenseEmbedding(resp)
       /\ UNCHANGED <<client_vars, ingest_vars>>
    \/ pc = "sparse" /\ \E resp \in SessionSparseOutcomes : SparseEmbedding(resp)
       /\ UNCHANGED <<client_vars, ingest_vars>>
    \/ pc = "query"
       /\ \E out \in SessionIndexOutcomes(request.top_k) : IndexQuery(out)
       /\ UNCHANGED <<client_vars, ingest_vars>>
    \/ pc = "fallback" /\ \E resp \in SessionAnswerOutcomes : Fallback(resp)
       /\ UNCHANGED <<client_vars, ingest_vars>>
    \/ pc = "fetch"
       /\ \E out \in SessionFetchOutcomes(vector_ids) : FetchMetadata(out)
       /\ UNCHANGED <<client_vars, ingest_vars>>
    \/ pc = "final_summary"
       /\ \E resp \in SessionSummaryOutcomes : FinalSummary(resp)
       /\ UNCHANGED <<client_vars, ingest_vars>>
    \/ pc = "done" /\ Receive /\ UNCHANGED ingest_vars
    \/ client_pc = "waiting" /\ \E msg \in SessionFailures : RequestFails(msg)
       /\ UNCHANGED ingest_vars
    \/ RunStopped /\ UNCHANGED ingest_vars
    \/ ClearChat /\ UNCHANGED ingest_vars

SessionSpec == Init /\ [][SessionNext]_vars

(***************************************************************************)
(* A chat session of at most MaxSubmissions questions in which the POST    *)
(* may end in each way the client tells apart: a 200 response, a non-200   *)
(* response (l.350-354), a timeout, a connection error, or another         *)
(* exception (l.368-372).                                                  *)
(***************************************************************************)
ApiErrorMessage(status_code, text) ==
    "[warning] **API Error**\n\nStatus Code: " \o status_code \o "\n\nDetails: " \o text
UnexpectedErrorMessage(e) ==
    "[x] **Unexpected Error:** An unexpected error occurred: " \o e
        \o "\n\nPlease try again or contact support if the issue persists."

PostFailures ==
    {timeout_msg, connection_msg,
     ApiErrorMessage("500", "Internal Server Error"),
     UnexpectedErrorMessage("Expecting value: line 1 column 1 (char 0)")}

\* the handler takes its next step
SessionRouterStep ==
    \/ pc = "classify_first"
       /\ \E resp \in SessionClassifierOutcomes : FirstClassify(resp)
    \/ pc = "summary_request"
       /\ \E resp \in SessionSummaryOutcomes : SummaryRequest(resp)
    \/ pc = "classify_followup"
       /\ \E resp \in SessionClassifierOutcomes : FollowupClassify(resp)
    \/ pc = "scan" /\ \E resp \in SessionRelevanceOutcomes : ScanTurn(resp)
    \/ pc = "reclassify"
       /\ \E resp \in SessionReclassifierOutcomes : Reclassify(resp)
    \/ pc = "generic" /\ \E resp \in SessionAnswerOutcomes : GenericAnswer(resp)
    \/ pc = "dense" /\ \E resp \in DenseOutcomes : DenseEmbedding(resp)
    \/ pc = "sparse" /\ \E resp \in SessionSparseOutcomes : SparseEmbedding(resp)
    \/ pc = "query"
       /\ \E out \in SessionIndexOutcomes(request.top_k) : IndexQuery(out)
    \/ pc = "fallback" /\ \E resp \in SessionAnswerOutcomes : Fallback(resp)
    \/ pc = "fetch"
       /\ \E out \in SessionFetchOutcomes(vector_ids) : FetchMetadata(out)
    \/ pc = "final_summary"
       /\ \E resp \in SessionSummaryOutcomes : FinalSummary(resp)

FailureNext ==
    \/ client_pc = "input" /\ pc = "idle" /\ query_count < MaxSubmissions
       /\ \E query \in SessionQueries, want_summary \in BOOLEAN :
              Submit(query, HybridDefault, want_summary)
       /\ UNCHANGED ingest_vars
    \/ SessionRouterStep /\ UNCHANGED <<client_vars, ingest_vars>>
    \/ pc = "done" /\ Receive /\ UNCHANGED ingest_vars
    \/ client_pc = "waiting" /\ \E msg \in PostFailures : RequestFails(msg)
       /\ UNCHANGED ingest_vars
    \/ RunStopped /\ UNCHANGED ingest_vars
    \/ ClearChat /\ UNCHANGED ingest_vars

FailureSpec == Init /\ [][FailureNext]_vars

(***************************************************************************)
(* fetch_metadata_from_sqlite called on its own: any list of at most       *)
(* MaxIds identifiers, repeated ones included, against any table holding   *)
(* some of the rows.                                                       *)
(***************************************************************************)
IdLists == UNION {[1..n -> VectorIds] : n \in 0..MaxIds}

Tables == {[id \in D |-> InitialChunks[id]] : D \in SUBSET (DOMAIN InitialChunks)}

FetchInit ==
    /\ pc = "fetch"
    /\ request = DefaultRequest
    /\ query_text = ""
    /\ relevant_turns = <<>>
    /\ query_type = ""
    /\ force_specific = FALSE
    /\ scan_i = 0
    /\ relevance_result = NotRelated
    /\ augmented_query = ""
    /\ branch = "first"
    /\ dense_emb = None
    /\ sparse_emb = None
    /\ vector_ids \in IdLists
    /\ results = <<>>
    /\ combined_text = ""
    /\ response = NoResponse
    /\ calls = <<>>
    /\ patent_chunks \in Tables
    /\ session_history = <<>>
    /\ query_count = 0
    /\ api_history = <<>>
    /\ summary = FALSE
    /\ client_pc = "input"
    /\ NoIngestion

FetchNext ==
    /\ pc = "fetch"
    /\ \E out \in FetchOutcomes(vector_ids) : FetchMetadata(out)
    /\ UNCHANGED <<client_vars, ingest_vars>>

FetchSpec == FetchInit /\ [][FetchNext]_vars

(***************************************************************************)
(* The ingestion run: backend/data_loader.py.                              *)
(* A file of the folder either fails to load or holds a patent, a JSON     *)
(* object in which any key may be missing.                                 *)
(***************************************************************************)
serving_vars ==
    <<pc, request, query_text, relevant_turns, query_type, force_specific,
      scan_i, relevance_result, augmented_query, branch, dense_emb,
      sparse_emb, vector_ids, results, combined_text, response, calls>>

\* dict.get(key, default)
Get(d, key, default) == IF key \in DOMAIN d THEN d[key] ELSE default

DronePatent ==
    [patent_number |-> "US1",
     titles |-> <<[lang |-> "EN", text |-> "Drone"]>>,
     abstracts |-> <<[lang |-> "DE", paragraph_markup |-> "Drohne."],
                     [lang |-> "EN", paragraph_markup |-> "A drone."]>>,
     descriptions |-> <<[lang |-> "EN", paragraph_markup |-> "It flies."]>>,
     claims |-> <<[claims |-> <<[lang |-> "EN", paragraph_markup |-> "One."],
                                [lang |-> "FR", paragraph_markup |-> "Deux."],
                                [lang |-> "EN", paragraph_markup |-> "Two."]>>]>>]

\* no number, no English abstract, no claims key
BlankPatent ==
    [titles |-> <<[lang |-> "EN", text |-> "Blank"]>>,
     abstracts |-> <<[lang |-> "DE", paragraph_markup |-> "Leer."],
                     [paragraph_markup |-> "No language tag."]>>]

\* a claims array that is there and empty
NoClaimsPatent ==
    [patent_number |-> "US3",
     abstracts |-> <<[lang |-> "EN", paragraph_markup |-> "A gauge."]>>,
     claims |-> <<>>]

\* no abstract at all and an empty claims array
EmptyPatent == [patent_number |-> "US4", claims |-> <<>>]

Files ==
    {[loads |-> FALSE],
     [loads |-> TRUE, patent |-> DronePatent],
     [loads |-> TRUE, patent |-> BlankPatent],
     [loads |-> TRUE, patent |-> NoClaimsPatent],
     [loads |-> TRUE, patent |-> EmptyPatent]}

Folders == UNION {[1..n -> Files] : n \in 0..MaxFiles}

\* l.31-36
RECURSIVE extract_english_field(_, _)
extract_english_field(entries, field_name) ==
    IF Len(entries) = 0 THEN ""
    ELSE IF Get(Head(entries), "lang", None) = "EN"
    THEN Get(Head(entries), field_name, "")
    ELSE extract_english_field(Tail(entries), field_name)

\* l.59-62 of the file being processed
patent == file_paths[file_idx + 1].patent
patent_number == Get(patent, "patent_number", "patent_" \o ToStr(file_idx))
title == extract_english_field(Get(patent, "titles", <<>>), "text")
abstract == extract_english_field(Get(patent, "abstracts", <<>>), "paragraph_markup")
description ==
    extract_english_field(Get(patent, "descriptions", <<>>), "paragraph_markup")

\* l.64-67; the [0] of l.64 has raised IndexError when claims is empty
claims_data == Get(Get(patent, "claims", <<[claims |-> <<>>]>>)[1], "claims", <<>>)
IsEnglish(c) == Get(c, "lang", None) = "EN"
claims_text ==
    LET english == SelectSeq(claims_data, IsEnglish)
    IN  JoinSpace([i \in DOMAIN english |-> Get(english[i], "paragraph_markup", "")])

\* l.69
doc_combined_text == Strip(abstract \o " " \o claims_text)

\* split_text_into_chunks (langchain's splitter): the text cut into at most
\* MaxChunks pieces, none of them empty
Pieces(text, n) ==
    [i \in 1..n |-> SubSeq(text, ((i - 1) * Len(text)) \div n + 1, (i * Len(text)) \div n)]

split_text_into_chunks(text) ==
    {Pieces(text, n) : n \in 1..(IF Len(text) < MaxChunks THEN Len(text) ELSE MaxChunks)}

Uuids == {"1a2b3c4d", "5e6f7a8b"}

IngCall(c) == ing_calls' = Append(ing_calls, c)

\* l.40-45: init_pinecone gives the index or None, init_sqlite the cursor
StartRun(pinecone_ok) ==
    /\ ing_pc = "start"
    /\ index' = IF pinecone_ok THEN Some("index") ELSE None
    /\ total_chunks' = 0
    /\ file_idx' = 0
    /\ ing_pc' = "file"
    /\ UNCHANGED <<file_paths, detailed_summary, chunks, chunk_idx, dense_embedding,
                   sparse_embedding, vector_id, index_vectors, uncommitted, ing_calls,
                   patent_chunks, serving_vars, client_vars>>

\* l.47-73: the next file; a file that fails to load and a patent with no
\* abstract and no claims text are passed over
LoadFile ==
    /\ ing_pc = "file"
    /\ file_idx < Len(file_paths)
    /\ IF ~file_paths[file_idx + 1].loads
       THEN file_idx' = file_idx + 1 /\ ing_pc' = "file"
       ELSE IF Len(Get(patent, "claims", <<[claims |-> <<>>]>>)) = 0
       THEN ing_pc' = "crashed" /\ UNCHANGED file_idx
       ELSE IF doc_combined_text = ""
       THEN file_idx' = file_idx + 1 /\ ing_pc' = "file"
       ELSE ing_pc' = "summary" /\ UNCHANGED file_idx
    /\ UNCHANGED <<file_paths, detailed_summary, chunks, chunk_idx, dense_embedding,
                   sparse_embedding, vector_id, total_chunks, index, index_vectors,
                   uncommitted, ing_calls, patent_chunks, serving_vars, client_vars>>

\* l.76: generate_summary(query, result) is called with one argument; the
\* call raises TypeError before the function body runs, outside any try
GenerateSummary ==
    /\ ing_pc = "summary"
    /\ IngCall([fn |-> "generate_summary", args |-> <<doc_combined_text>>, ret |-> Raise])
    /\ ing_pc' = "crashed"
    /\ UNCHANGED <<file_paths, file_idx, detailed_summary, chunks, chunk_idx,
                   dense_embedding, sparse_embedding, vector_id, total_chunks, index,
                   index_vectors, uncommitted, patent_chunks, serving_vars, client_vars>>

\* l.79-82
SplitText(pieces) ==
    /\ ing_pc = "split"
    /\ chunks' = pieces
    /\ chunk_idx' = 0
    /\ ing_pc' = "dense"
    /\ UNCHANGED <<file_paths, file_idx, detailed_summary, dense_embedding,
                   sparse_embedding, vector_id, total_chunks, index, index_vectors,
                   uncommitted, ing_calls, patent_chunks, serving_vars, client_vars>>

\* `continue` and the end of the loop body: the next chunk, or the next file
NextChunk ==
    /\ chunk_idx' = chunk_idx + 1
    /\ IF chunk_idx + 1 < Len(chunks)
       THEN ing_pc' = "dense" /\ UNCHANGED file_idx
       ELSE ing_pc' = "file" /\ file_idx' = file_idx + 1

\* l.83-88
ChunkDenseEmbedding(uuid, resp) ==
    /\ ing_pc = "dense"
    /\ vector_id' = patent_number \o "_chunk_" \o ToStr(chunk_idx) \o "_" \o uuid
    /\ dense_embedding' = generate_dense_embedding(chunks[chunk_idx + 1], resp)
    /\ IngCall([fn |-> "generate_dense_embedding", args |-> <<chunks[chunk_idx + 1]>>,
                vector_id |-> vector_id', ret |-> dense_embedding'])
    /\ IF dense_embedding' = None
       THEN NextChunk
       ELSE ing_pc' = "sparse" /\ UNCHANGED <<chunk_idx, file_idx>>
    /\ UNCHANGED <<file_paths, detailed_summary, chunks, sparse_embedding,
                   total_chunks, index, index_vectors, uncommitted, patent_chunks,
                   serving_vars, client_vars>>

\* l.91-93
ChunkSparseEmbedding(resp) ==
    /\ ing_pc = "sparse"
    /\ sparse_embedding' = generate_sparse_embedding(chunks[chunk_idx + 1], resp)
    /\ IngCall([fn |-> "generate_sparse_embedding", args |-> <<chunks[chunk_idx + 1]>>,
                vector_id |-> vector_id, ret |-> sparse_embedding'])
    /\ IF sparse_embedding' = None
       THEN NextChunk
       ELSE ing_pc' = "upsert" /\ UNCHANGED <<chunk_idx, file_idx>>
    /\ UNCHANGED <<file_paths, detailed_summary, chunks, dense_embedding, vector_id,
                   total_chunks, index, index_vectors, uncommitted, patent_chunks,
                   serving_vars, client_vars>>

\* pinecone_helper.upsert_hybrid_vector: the hybrid upsert, on its failure
\* the dense-only upsert, on its failure nothing; no exception leaves it.
\* With index = None both upserts raise AttributeError.
UpsertOutcomes ==
    IF index = None THEN {"failed"} ELSE {"hybrid", "dense_only", "failed"}

upsert_hybrid_vector(id, dense, sparse, metadata, out) ==
    CASE out = "hybrid" ->
            (id :> [values |-> dense[1], sparse_values |-> sparse[1],
                    metadata |-> metadata]) @@ index_vectors
      [] out = "dense_only" ->
            (id :> [values |-> dense[1], metadata |-> metadata]) @@ index_vectors
      [] out = "failed" -> index_vectors

\* l.96-102
Upsert(out) ==
    /\ ing_pc = "upsert"
    /\ index_vectors' =
          upsert_hybrid_vector(vector_id, dense_embedding, sparse_embedding,
                               [patent_number |-> patent_number, title |-> title], out)
    /\ IngCall([fn |-> "upsert_hybrid_vector", args |-> <<vector_id>>,
                vector_id |-> vector_id, ret |-> out])
    /\ ing_pc' = "insert"
    /\ UNCHANGED <<file_paths, file_idx, detailed_summary, chunks, chunk_idx,
                   dense_embedding, sparse_embedding, vector_id, total_chunks, index,
                   uncommitted, patent_chunks, serving_vars, client_vars>>

\* the INSERT with the summary column left out
insert_metadata_no_summary(id, number, ttl, desc, abs, claims, summ) ==
    (id :> [patent_number |-> number, title |-> ttl, description |-> desc,
            abstract |-> abs, claims_text |-> claims, detailed_summary |-> ""])
        @@ uncommitted

\* sqlite_helper.insert_metadata: INSERT OR REPLACE through the cursor
insert_metadata(id, number, ttl, desc, abs, claims, summ) ==
    (id :> [patent_number |-> number, title |-> ttl, description |-> desc,
            abstract |-> abs, claims_text |-> claims, detailed_summary |-> summ])
        @@ uncommitted

\* l.105-117; an exception of the store is caught nowhere
InsertMetadata(ok) ==
    /\ ing_pc = "insert"
    /\ IngCall([fn |-> "insert_metadata",
                args |-> <<vector_id, patent_number, title, description, abstract,
                           claims_text, detailed_summary>>,
                vector_id |-> vector_id, ret |-> IF ok THEN "ok" ELSE "raise"])
    /\ IF ok
       THEN /\ uncommitted' =
                  insert_metadata(vector_id, patent_number, title, description,
                                  abstract, claims_text, detailed_summary)
            /\ total_chunks' = total_chunks + 1
            /\ NextChunk
       ELSE /\ ing_pc' = "crashed"
            /\ UNCHANGED <<uncommitted, total_chunks, chunk_idx, file_idx>>
    /\ UNCHANGED <<file_paths, detailed_summary, chunks, dense_embedding,
                   sparse_embedding, vector_id, index, index_vectors, patent_chunks,
                   serving_vars, client_vars>>

\* l.119-121: close_sqlite commits what the cursor inserted
CloseRun ==
    /\ ing_pc = "file"
    /\ file_idx >= Len(file_paths)
    /\ patent_chunks' = uncommitted @@ patent_chunks
    /\ uncommitted' = <<>>
    /\ ing_pc' = "ended"
    /\ UNCHANGED <<file_paths, file_idx, detailed_summary, chunks, chunk_idx,
                   dense_embedding, sparse_embedding, vector_id, total_chunks, index,
                   index_vectors, ing_calls, serving_vars, client_vars>>

\* what the run prints at its end (l.42, l.121)
Report == [total_files |-> Len(file_paths), total_chunks |-> total_chunks]

Idle ==
    /\ pc = "idle"
    /\ request = DefaultRequest
    /\ query_text = ""
    /\ relevant_turns = <<>>
    /\ query_type = ""
    /\ force_specific = FALSE
    /\ scan_i = 0
    /\ relevance_result = NotRelated
    /\ augmented_query = ""
    /\ branch = ""
    /\ dense_emb = None
    /\ sparse_emb = None
    /\ vector_ids = <<>>
    /\ results = <<>>
    /\ combined_text = ""
    /\ response = NoResponse
    /\ calls = <<>>
    /\ session_history = <<>>
    /\ query_count = 0
    /\ api_history = <<>>
    /\ summary = FALSE
    /\ client_pc = "input"

\* python data_loader.py on a folder of at most MaxFiles files, the stores
\* empty
IngestInit ==
    /\ Idle
    /\ patent_chunks = <<>>
    /\ ing_pc = "start"
    /\ file_paths \in Folders
    /\ file_idx = 0
    /\ detailed_summary = ""
    /\ chunks = <<>>
    /\ chunk_idx = 0
    /\ dense_embedding = None
    /\ sparse_embedding = None
    /\ vector_id = ""
    /\ total_chunks = 0
    /\ index = None
    /\ index_vectors = <<>>
    /\ uncommitted = <<>>
    /\ ing_calls = <<>>

IngestNext ==
    \/ ing_pc = "start" /\ \E pinecone_ok \in BOOLEAN : StartRun(pinecone_ok)
    \/ LoadFile
    \/ GenerateSummary
    \/ CloseRun

IngestSpec == IngestInit /\ [][IngestNext]_vars

(***************************************************************************)
(* The chunk loop of l.79-117 from its entry: the first file of the folder *)
(* holds a patent with text and detailed_summary has a value.  (The call   *)
(* of l.76 as it stands gives none: IngestSpec never gets here.)           *)
(***************************************************************************)
SummaryValues == {"", "A structured summary."}

LoopInit ==
    /\ Idle
    /\ patent_chunks = <<>>
    /\ ing_pc = "split"
    /\ file_paths \in {f \in Folders : Len(f) >= 1 /\ f[1] = [loads |-> TRUE, patent |-> DronePatent]}
    /\ file_idx = 0
    /\ detailed_summary \in SummaryValues
    /\ chunks = <<>>
    /\ chunk_idx = 0
    /\ dense_embedding = None
    /\ sparse_embedding = None
    /\ vector_id = ""
    /\ total_chunks = 0
    /\ index \in {None, Some("index")}
    /\ index_vectors = <<>>
    /\ uncommitted = <<>>
    /\ ing_calls = <<>>

LoopNext ==
    \/ ing_pc = "split" /\ \E pieces \in split_text_into_chunks(doc_combined_text) :
                              SplitText(pieces)
    \/ ing_pc = "dense" /\ \E uuid \in Uuids, resp \in DenseOutcomes :
                              ChunkDenseEmbedding(uuid, resp)
    \/ ing_pc = "sparse" /\ \E resp \in SparseOutcomes : ChunkSparseEmbedding(resp)
    \/ ing_pc = "upsert" /\ \E out \in UpsertOutcomes : Upsert(out)
    \/ ing_pc = "insert" /\ \E ok \in BOOLEAN : InsertMetadata(ok)
    \/ LoadFile
    \/ GenerateSummary
    \/ CloseRun

LoopSpec == LoopInit /\ [][LoopNext]_vars

(***************************************************************************)
(* The chunk loop run twice over the same folder of one patent with text:  *)
(* when the first run has ended, data_loader.py is started again; the      *)
(* stores keep what the first run committed.                               *)
(***************************************************************************)
ReingestInit ==
    /\ Idle
    /\ patent_chunks = <<>>
    /\ ing_pc = "split"
    /\ file_paths = <<[loads |-> TRUE, patent |-> DronePatent]>>
    /\ file_idx = 0
    /\ detailed_summary \in SummaryValues
    /\ chunks = <<>>
    /\ chunk_idx = 0
    /\ dense_embedding = None
    /\ sparse_embedding = None
    /\ vector_id = ""
    /\ total_chunks = 0
    /\ index = Some("index")
    /\ index_vectors = <<>>
    /\ uncommitted = <<>>
    /\ ing_calls = <<>>

IsRunStart(c) == c.fn = "process_and_upsert_patents"

\* the second run, at the entry of its chunk loop for the same patent
RunAgain ==
    /\ ing_pc = "ended"
    /\ Len(SelectSeq(ing_calls, IsRunStart)) = 0
    /\ IngCall([fn |-> "process_and_upsert_patents",
                records |-> Cardinality(DOMAIN patent_chunks),
                vectors |-> Cardinality(DOMAIN index_vectors)])
    /\ ing_pc' = "split"
    /\ file_idx' = 0
    /\ total_chunks' = 0
    /\ chunks' = <<>>
    /\ chunk_idx' = 0
    /\ dense_embedding' = None
    /\ sparse_embedding' = None
    /\ vector_id' = ""
    /\ UNCHANGED <<file_paths, detailed_summary, index, index_vectors, uncommitted,
                   patent_chunks, serving_vars, client_vars>>

ReingestNext ==
    \/ ing_pc = "split" /\ \E pieces \in split_text_into_chunks(doc_combined_text) :
                              SplitText(pieces)
    \/ ing_pc = "dense" /\ \E uuid \in Uuids, resp \in DenseOutcomes :
                              ChunkDenseEmbedding(uuid, resp)
    \/ ing_pc = "sparse" /\ \E resp \in SparseOutcomes : ChunkSparseEmbedding(resp)
    \/ ing_pc = "upsert" /\ \E out \in UpsertOutcomes : Upsert(out)
    \/ ing_pc = "insert" /\ \E ok \in BOOLEAN : InsertMetadata(ok)
    \/ CloseRun
    \/ RunAgain

ReingestSpec == ReingestInit /\ [][ReingestNext]_vars

(***************************************************************************)
(* The chunk loop and the metadata adapter of the API server on the same   *)
(* database file: while or after data_loader.py runs,                      *)
(* fetch_metadata_from_sqlite([X]) is called once, on its own connection,  *)
(* for an identifier X that insert_metadata has been called with.          *)
(***************************************************************************)
RoundTripFolders ==
    {<<[loads |-> TRUE, patent |-> DronePatent]>>,
     <<[loads |-> TRUE, patent |-> DronePatent], [loads |-> TRUE, patent |-> DronePatent]>>}

RoundTripInit ==
    /\ Idle
    /\ patent_chunks = <<>>
    /\ ing_pc = "split"
    /\ file_paths \in RoundTripFolders
    /\ file_idx = 0
    /\ detailed_summary \in SummaryValues
    /\ chunks = <<>>
    /\ chunk_idx = 0
    /\ dense_embedding = None
    /\ sparse_embedding = None
    /\ vector_id = ""
    /\ total_chunks = 0
    /\ index = Some("index")
    /\ index_vectors = <<>>
    /\ uncommitted = <<>>
    /\ ing_calls = <<>>

InsertedIds ==
    {ing_calls[i].vector_id :
        i \in {j \in DOMAIN ing_calls :
                 ing_calls[j].fn = "insert_metadata" /\ ing_calls[j].ret = "ok"}}

\* the call fetch_metadata_from_sqlite(ids), made once
CallFetch(ids) ==
    /\ pc = "idle"
    /\ calls = <<>>
    /\ pc' = "fetch"
    /\ vector_ids' = ids
    /\ branch' = "first"
    /\ UNCHANGED <<request, query_text, relevant_turns, query_type, force_specific,
                   scan_i, relevance_result, augmented_query, dense_emb, sparse_emb,
                   results, combined_text, response, calls, patent_chunks,
                   client_vars, ingest_vars>>

RoundTripNext ==
    \/ ing_pc = "split" /\ \E pieces \in split_text_into_chunks(doc_combined_text) :
                              SplitText(pieces)
    \/ ing_pc = "dense" /\ \E uuid \in Uuids, resp \in DenseOutcomes :
                              ChunkDenseEmbedding(uuid, resp)
    \/ ing_pc = "sparse" /\ \E resp \in SparseOutcomes : ChunkSparseEmbedding(resp)
    \/ ing_pc = "upsert" /\ \E out \in UpsertOutcomes : Upsert(out)
    \/ ing_pc = "insert" /\ \E ok \in BOOLEAN : InsertMetadata(ok)
    \/ LoadFile
    \/ GenerateSummary
    \/ CloseRun
    \/ pc = "idle" /\ \E id \in InsertedIds : CallFetch(<<id>>)
    \/ pc = "fetch" /\ \E out \in FetchOutcomes(vector_ids) : FetchMetadata(out)
       /\ UNCHANGED <<client_vars, ingest_vars>>

RoundTripSpec == RoundTripInit /\ [][RoundTripNext]_vars

(***************************************************************************)
(* Vocabulary of the properties.                                           *)
(***************************************************************************)
\* the query contains a marker word, as a case-insensitive substring
MarkedBy(q, words) ==
    \E k \in 1..Len(words) : Contains(Lower(q), Lower(words[k]))

SummaryMarkedQueries == {q \in Queries : MarkedBy(q, summary_keywords)}
TechnicalMarkedQueries == {q \in Queries : MarkedBy(q, technical_terms)}

Handling == pc # "idle"
Done == pc = "done"

\* the relevant turns of the current request, from its history
RelevantTurnSet == {t \in Turns : IsRelevantTurn(t)}
InRelevantTurnSet(t) == t \in RelevantTurnSet
RequestRelevant == SelectSeq(request.history, InRelevantTurnSet)
NoRelevantTurn == Len(RequestRelevant) = 0

HasKey(k) == k \in DOMAIN response
EndsWith(s, t) == Len(s) >= Len(t) /\ SubSeq(s, Len(s) - Len(t) + 1, Len(s)) = t
CallFns == {calls[i].fn : i \in DOMAIN calls}
RetrievalFns ==
    {"generate_dense_embedding", "generate_sparse_embedding", "index.query",
     "fetch_metadata_from_sqlite"}
GenerationFns == {"generate_generic_answer", "generate_summary"}

IsScanCall(c) == c.fn = "relevance_check"
ScanCalls == SelectSeq(calls, IsScanCall)

(***************************************************************************)
(* C1: when a relevant turn exists and the query contains a summary marker *)
(* word (case-insensitive substring), the only collaborator call of the    *)
(* request is one generate_summary over the answer of the LAST relevant    *)
(* turn, and the response is that summary with related = true, empty       *)
(* results; no classification, scan, embedding, index query or fetch.      *)
(***************************************************************************)
C1_SummaryShortCircuit ==
    (Handling /\ request.query \in SummaryMarkedQueries /\ ~NoRelevantTurn) =>
        /\ pc \in {"summary_request", "done"}
        /\ \A i \in DOMAIN calls : calls[i].fn = "generate_summary"
        /\ Done =>
            /\ Len(calls) = 1
            /\ calls[1].result = OrEmpty(RequestRelevant[Len(RequestRelevant)].answer)
            /\ calls[1].query = Strip(request.query)
            /\ DOMAIN response = {"results", "live_summary", "related", "note"}
            /\ response.results = <<>>
            /\ response.related = TRUE
            /\ response.live_summary = calls[1].ret

C1_Witness ==
    /\ Done
    /\ request.query = " EXPLAIN the Sensor "
    /\ Len(RequestRelevant) = 2
    /\ RequestRelevant[1].answer # RequestRelevant[2].answer
    /\ HasKey("live_summary")
    /\ Len(response.live_summary) > 0

(***************************************************************************)
(* C2: first query (no relevant turn), classifier says 'irrelevant', no    *)
(* technical marker: the response is exactly {results: [], message:        *)
(* rejection} (no generic_answer, no related) and the classification is    *)
(* the only call made.                                                     *)
(***************************************************************************)
C2_FirstRejection ==
    (/\ pc \notin {"idle", "classify_first"}
     /\ query_type = "irrelevant"
     /\ request.query \notin TechnicalMarkedQueries
     /\ NoRelevantTurn) =>
        /\ Done
        /\ DOMAIN response = {"results", "message"}
        /\ response.results = <<>>
        /\ response.message = RejectionMessage
        /\ Len(calls) = 1
        /\ calls[1].fn = "classify_query_type"

C2_Witness ==
    /\ Done
    /\ request.query = "What's the weather today?"
    /\ Len(request.history) = 2
    /\ NoRelevantTurn
    /\ query_type = "irrelevant"
    /\ HasKey("message")

(***************************************************************************)
(* C3: first query containing a technical marker term (case-insensitive    *)
(* substring): whatever the classifier returned, the request is never      *)
(* rejected nor answered as too general, the second call is the dense      *)
(* embedding of the query, and an index query follows when it succeeded.   *)
(***************************************************************************)
C3_TechnicalOverride ==
    (/\ pc \notin {"idle", "classify_first"}
     /\ request.query \in TechnicalMarkedQueries
     /\ NoRelevantTurn) =>
        /\ pc # "generic"
        /\ Done =>
            /\ HasKey("message") =>
                   response.message \notin {RejectionMessage, TooGeneralMessage}
            /\ Len(calls) >= 2
            /\ calls[2].fn = "generate_dense_embedding"
            /\ calls[2].text = Strip(request.query)
            /\ calls[2].ret # None =>
                   \E i \in 3..Len(calls) : calls[i].fn = "index.query"

C3_Witness ==
    /\ Done
    /\ request.query = "rain gauge"
    /\ NoRelevantTurn
    /\ calls[1].ret = "irrelevant"
    /\ "index.query" \in CallFns

(***************************************************************************)
(* C4: the relatedness scan asks about the relevant turns one at a time,   *)
(* most recent first; it stops at the first affirmative answer and returns *)
(* that turn; a call that raises or gives no usable text counts as not     *)
(* affirmative and the scan goes on; at most one call per relevant turn;   *)
(* when no answer is affirmative every turn was asked and is_related is    *)
(* false.                                                                  *)
(***************************************************************************)
C4_RelatednessScan ==
    LET n == Len(relevant_turns)
        m == Len(ScanCalls)
    IN  /\ m <= n
        /\ \A k \in 1..m :
              /\ ScanCalls[k].position = n - k
              /\ ScanCalls[k].turn = relevant_turns[n - k + 1]
              /\ ScanCalls[k].new_question = query_text
              /\ ~ScanCalls[k].usable => ~ScanCalls[k].ret
              /\ k < m => ~ScanCalls[k].ret
        /\ pc = "scan" =>
              /\ m = scan_i
              /\ m < n
              /\ \A k \in 1..m : ~ScanCalls[k].ret
        /\ (m > 0 /\ pc # "scan") =>
              IF ScanCalls[m].ret
              THEN relevance_result =
                      [is_related |-> TRUE,
                       related_to_index |-> Some(ScanCalls[m].position),
                       related_turn |-> Some(ScanCalls[m].turn)]
              ELSE m = n /\ relevance_result = NotRelated

C4_Witness ==
    /\ Done
    /\ Len(ScanCalls) = 2
    /\ ~ScanCalls[1].usable
    /\ ScanCalls[2].ret
    /\ relevant_turns[1] # relevant_turns[2]
    /\ relevance_result.related_to_index = Some(0)

(***************************************************************************)
(* C5: when the scan matched a turn, the augmented query holds that turn's *)
(* question, its answer and the new query, and it is what is classified    *)
(* next; if that classification is 'generic' the only further call is the  *)
(* direct answer over the augmented query; otherwise the dense embedding   *)
(* comes next, and the dense and sparse embeddings, the no-match fallback  *)
(* answer and the final summary all take the augmented query.  Every       *)
(* non-error response has related = true and a note with the number of the *)
(* matched turn.                                                           *)
(***************************************************************************)
C5_RelatedFollowup ==
    /\ pc = "reclassify" =>
        LET turn == relevance_result.related_turn[1]
        IN  /\ relevance_result.is_related
            /\ Contains(augmented_query, turn.question)
            /\ Contains(augmented_query, OrEmpty(turn.answer))
            /\ Contains(augmented_query, Strip(request.query))
            /\ augmented_query # Strip(request.query)
    /\ (Done /\ relevance_result.is_related) =>
        LET j == Len(ScanCalls) + 2
        IN  /\ Len(calls) > j
            /\ calls[j].fn = "classify_query_type"
            /\ calls[j].query = augmented_query
            /\ IF calls[j].ret = "generic"
               THEN /\ Len(calls) = j + 1
                    /\ calls[j + 1].fn = "generate_generic_answer"
                    /\ calls[j + 1].query = augmented_query
                    /\ HasKey("generic_answer")
                    /\ response.generic_answer = calls[j + 1].ret
                    /\ response.results = <<>>
               ELSE /\ calls[j + 1].fn = "generate_dense_embedding"
                    /\ \A i \in (j + 1)..Len(calls) :
                          /\ calls[i].fn \in {"generate_dense_embedding",
                                              "generate_sparse_embedding"}
                                => calls[i].text = augmented_query
                          /\ calls[i].fn \in GenerationFns
                                => calls[i].query = augmented_query
            /\ ~HasKey("error") =>
                  /\ HasKey("related")
                  /\ response.related = TRUE
                  /\ HasKey("note")
                  /\ EndsWith(response.note,
                              "#" \o ToStr(relevance_result.related_to_index[1] + 1))

C5_Witness ==
    /\ Done
    /\ relevance_result.is_related
    /\ relevance_result.related_to_index = Some(0)
    /\ Len(relevant_turns) = 2
    /\ request.hybrid
    /\ \E i \in DOMAIN calls :
          calls[i].fn = "generate_summary" /\ calls[i].query = augmented_query
    /\ HasKey("live_summary")

(***************************************************************************)
(* C6: relevant turns exist, the query was not rejected, and the scan      *)
(* matched no turn.  The raw query is handled as a new topic: the direct   *)
(* answer when it was classified generic and has no technical marker,      *)
(* retrieval otherwise, always over the raw query.                         *)
(***************************************************************************)
UnrelatedNewTopic == Done /\ Len(ScanCalls) > 0 /\ ~relevance_result.is_related

NewTopicOverRawQuery ==
    LET j == Len(ScanCalls) + 2
        raw == Strip(request.query)
    IN  /\ Len(calls) >= j
        /\ IF calls[1].ret = "generic" /\ request.query \notin TechnicalMarkedQueries
           THEN /\ Len(calls) = j
                /\ calls[j].fn = "generate_generic_answer"
                /\ calls[j].query = raw
                /\ HasKey("generic_answer")
                /\ response.generic_answer = calls[j].ret
           ELSE /\ calls[j].fn = "generate_dense_embedding"
                /\ \A i \in j..Len(calls) :
                      /\ calls[i].fn \in {"generate_dense_embedding",
                                          "generate_sparse_embedding"}
                            => calls[i].text = raw
                      /\ calls[i].fn \in GenerationFns => calls[i].query = raw

\* C6 as stated: the response returned on this path is marked related = false
C6_Original ==
    UnrelatedNewTopic =>
        /\ NewTopicOverRawQuery
        /\ HasKey("related")
        /\ response.related = FALSE

\* C6 as amended: every response on this path that is not an error payload is
\* marked related = false and has no note; an error payload has no relation flag
C6_UnrelatedNewTopic ==
    UnrelatedNewTopic =>
        /\ NewTopicOverRawQuery
        /\ IF HasKey("error")
           THEN DOMAIN response = {"error"}
           ELSE /\ HasKey("related")
                /\ response.related = FALSE
                /\ ~HasKey("note")

C6_Witness ==
    /\ UnrelatedNewTopic
    /\ Len(ScanCalls) = 2
    /\ HasKey("related")
    /\ HasKey("results")
    /\ Len(response.results) > 0

(***************************************************************************)
(* C7: a relevant turn exists, no summary marker word, classifier says     *)
(* 'irrelevant', no technical marker: the response is exactly {results:    *)
(* [], message: rejection, related: false}, and the classification is the  *)
(* only call: no scan, no retrieval.                                       *)
(***************************************************************************)
C7_FollowupRejection ==
    (/\ pc \notin {"idle", "classify_followup"}
     /\ query_type = "irrelevant"
     /\ request.query \notin SummaryMarkedQueries
     /\ request.query \notin TechnicalMarkedQueries
     /\ ~NoRelevantTurn) =>
        /\ Done
        /\ DOMAIN response = {"results", "message", "related"}
        /\ response.results = <<>>
        /\ response.message = RejectionMessage
        /\ response.related = FALSE
        /\ Len(calls) = 1
        /\ calls[1].fn = "classify_query_type"

C7_Witness ==
    /\ Done
    /\ request.query = "What's the weather today?"
    /\ Len(RequestRelevant) = 2
    /\ query_type = "irrelevant"
    /\ HasKey("related")
    /\ HasKey("message")

(***************************************************************************)
(* C8: first query, classifier says 'generic', no technical marker: the    *)
(* response has results = [] and the generic_answer generated from the raw *)
(* query alone; no embedding, index query or metadata fetch is made.       *)
(***************************************************************************)
C8_FirstGeneric ==
    (/\ pc \notin {"idle", "classify_first"}
     /\ query_type = "generic"
     /\ request.query \notin TechnicalMarkedQueries
     /\ NoRelevantTurn) =>
        /\ pc \in {"generic", "done"}
        /\ CallFns \cap RetrievalFns = {}
        /\ Done =>
            /\ Len(calls) = 2
            /\ calls[2].fn = "generate_generic_answer"
            /\ calls[2].query = Strip(request.query)
            /\ HasKey("results")
            /\ response.results = <<>>
            /\ HasKey("generic_answer")
            /\ response.generic_answer = calls[2].ret

C8_Witness ==
    /\ Done
    /\ request.query = "What's the weather today?"
    /\ NoRelevantTurn
    /\ query_type = "generic"
    /\ HasKey("generic_answer")
    /\ response.generic_answer # UnableAnswer

(***************************************************************************)
(* C9: on every retrieval path, a dense embedding call that returns        *)
(* nothing is the last call of the request, and the request ends with the  *)
(* error payload: no index query, metadata fetch or generation call after. *)
(***************************************************************************)
DenseFailedAt(i) ==
    calls[i].fn = "generate_dense_embedding" /\ calls[i].ret = None

C9_DenseEmbeddingFailure ==
    \A i \in DOMAIN calls :
        DenseFailedAt(i) =>
            /\ i = Len(calls)
            /\ Done
            /\ response = [error |-> DenseFailedError]

C9_Witness ==
    /\ Done
    /\ relevance_result.is_related
    /\ DenseFailedAt(Len(calls))
    /\ HasKey("error")

(***************************************************************************)
(* C10: on every retrieval path, when the index answers with zero matches  *)
(* no metadata fetch is made and the response has results = [] and the     *)
(* generic_answer generated from the effective search text (augmented      *)
(* query on the related path, raw query otherwise); the relation flag is   *)
(* absent without relevant turn, false on the new-topic path, true on the  *)
(* related path.                                                           *)
(***************************************************************************)
ZeroMatches ==
    \E i \in DOMAIN calls :
        /\ calls[i].fn = "index.query"
        /\ calls[i].ret.kind = "matches"
        /\ Len(calls[i].ret.ids) = 0

C10_NoMatchFallback ==
    (Handling /\ ZeroMatches) =>
        /\ pc \in {"fallback", "done"}
        /\ "fetch_metadata_from_sqlite" \notin CallFns
        /\ Done =>
            LET last == calls[Len(calls)]
            IN  /\ last.fn = "generate_generic_answer"
                /\ last.query = IF relevance_result.is_related
                                THEN augmented_query ELSE Strip(request.query)
                /\ HasKey("results")
                /\ response.results = <<>>
                /\ HasKey("generic_answer")
                /\ response.generic_answer = last.ret
                /\ IF NoRelevantTurn THEN ~HasKey("related")
                   ELSE /\ HasKey("related")
                        /\ response.related = relevance_result.is_related

C10_Witness ==
    /\ Done
    /\ ZeroMatches
    /\ ~NoRelevantTurn
    /\ ~relevance_result.is_related
    /\ HasKey("generic_answer")
    /\ HasKey("related")

(***************************************************************************)
(* C11: after a metadata fetch that returned records, the response carries *)
(* exactly those records.  With summary requested it also carries          *)
(* live_summary: generate_summary was called exactly once, over the        *)
(* space-joined non-empty detailed_summary fields, when some fetched       *)
(* record has a non-empty detailed_summary, and was not called at all      *)
(* (live_summary is the fixed text) when none has.  Without summary        *)
(* requested there is no live_summary and no generate_summary call.        *)
(***************************************************************************)
IsFetchCall(c) == c.fn = "fetch_metadata_from_sqlite"
IsSummaryCall(c) == c.fn = "generate_summary"
FetchCalls == SelectSeq(calls, IsFetchCall)
SummaryCalls == SelectSeq(calls, IsSummaryCall)
Fetched == Len(FetchCalls) = 1 /\ FetchCalls[1].ret.kind = "rows"
FetchedRows == FetchCalls[1].ret.rows
SomeSummaryText(rows) == \E i \in DOMAIN rows : rows[i].detailed_summary # ""

RaisedAt(i) ==
    /\ calls[i].fn \in {"index.query", "fetch_metadata_from_sqlite"}
    /\ calls[i].ret = Raise
GeneratorFailedAt(i) ==
    calls[i].fn = "generate_generic_answer" /\ calls[i].ret = UnableAnswer
IsPayload == HasKey("error") \/ HasKey("results")
\* the positions at which Next has a step to take
HandlerPositions ==
    {"idle", "classify_first", "summary_request", "classify_followup", "scan",
     "reclassify", "generic", "dense", "sparse", "query", "fallback", "fetch",
     "final_summary", "done"}

\* as stated: every collaborator failure surfaces as an error payload
C12_Original ==
    Done =>
        \A i \in DOMAIN calls :
            (RaisedAt(i) \/ GeneratorFailedAt(i) \/ DenseFailedAt(i)) => HasKey("error")

C12_NoEscapingException ==
    /\ \A i \in DOMAIN calls :
          /\ RaisedAt(i) =>
                /\ i = Len(calls)
                /\ Done
                /\ DOMAIN response = {"error"}
          /\ (GeneratorFailedAt(i) /\ Done) =>
                /\ i = Len(calls)
                /\ ~HasKey("error")
                /\ HasKey("generic_answer")
                /\ response.generic_answer = UnableAnswer
          /\ (DenseFailedAt(i) /\ Done) => HasKey("error")
    /\ Done => IsPayload
    /\ pc \in HandlerPositions

\* the metadata store raised on a related follow-up, after the index answered
C12_Witness ==
    /\ Done
    /\ relevance_result.is_related
    /\ Len(calls) > 1
    /\ calls[Len(calls)].fn = "fetch_metadata_from_sqlite"
    /\ RaisedAt(Len(calls))
    /\ DOMAIN response = {"error"}

(***************************************************************************)
(* C13: on every retrieval path that reaches the index, index.query is     *)
(* called exactly once, with the dense vector and the requested top_k.     *)
(* With hybrid requested one sparse embedding of the effective search text *)
(* is computed first and the query carries both vectors; without hybrid no *)
(* sparse embedding is computed and the query carries the dense vector     *)
(* only.                                                                   *)
(***************************************************************************)
IsIndexCall(c) == c.fn = "index.query"
IsSparseCall(c) == c.fn = "generate_sparse_embedding"
IsDenseCall(c) == c.fn = "generate_dense_embedding"
IndexCalls == SelectSeq(calls, IsIndexCall)
SparseCalls == SelectSeq(calls, IsSparseCall)
DenseCalls == SelectSeq(calls, IsDenseCall)
EffectiveText ==
    IF relevance_result.is_related THEN augmented_query ELSE Strip(request.query)
PastQuery == pc \in {"fallback", "fetch", "final_summary"}

C13_HybridQuery ==
    /\ Len(IndexCalls) <= 1
    /\ Len(SparseCalls) <= 1
    /\ PastQuery => Len(IndexCalls) = 1
    /\ (Len(SparseCalls) = 1) => (request.hybrid /\ SparseCalls[1].text = EffectiveText)
    /\ (Len(IndexCalls) = 1) =>
          LET q == IndexCalls[1]
          IN  /\ Len(DenseCalls) = 1
              /\ DenseCalls[1].ret # None
              /\ q.vector = DenseCalls[1].ret
              /\ q.top_k = request.top_k
              /\ IF request.hybrid
                 THEN /\ q.with_sparse
                      /\ Len(SparseCalls) = 1
                      /\ q.sparse_vector = SparseCalls[1].ret
                      /\ q.sparse_vector # None
                 ELSE /\ ~q.with_sparse
                      /\ Len(SparseCalls) = 0

\* what holds of the sparse vector: it is whatever generate_sparse_embedding
\* returned, also when that is nothing
C13_SparseAsReturned ==
    (Len(IndexCalls) = 1 /\ request.hybrid) =>
        /\ IndexCalls[1].with_sparse
        /\ Len(SparseCalls) = 1
        /\ IndexCalls[1].sparse_vector = SparseCalls[1].ret

\* hybrid requested, the sparse embedding failed, the index was still queried
\* and records came back
C13_Witness ==
    /\ Done
    /\ request.hybrid
    /\ Len(IndexCalls) = 1
    /\ IndexCalls[1].sparse_vector = None
    /\ HasKey("results")
    /\ Len(response.results) > 0

(***************************************************************************)
(* C14: while a request is handled, relevant_turns is the order-preserving *)
(* subsequence of that request's history made of the turns that have a     *)
(* non-empty answer not carrying the 'not relevant' marker (matched        *)
(* case-insensitively); between requests it is empty, so nothing of an     *)
(* earlier request is reused.                                              *)
(***************************************************************************)
CarriesMarker(t) ==
    t.answer # None /\ Contains(Lower(OrEmpty(t.answer)), Lower(NotRelevantMarker))
HasAnswerText(t) == t.answer # None /\ OrEmpty(t.answer) # ""
MarkerFreeTurns == {t \in Turns : ~CarriesMarker(t)}
AnsweredMarkerFreeTurns == {t \in Turns : HasAnswerText(t) /\ ~CarriesMarker(t)}
IsMarkerFree(t) == t \in MarkerFreeTurns
IsAnsweredMarkerFree(t) == t \in AnsweredMarkerFreeTurns

\* as stated: every turn whose answer does not carry the marker is kept
C14_Original ==
    Handling => relevant_turns = SelectSeq(request.history, IsMarkerFree)

C14_RelevantTurns ==
    IF Handling
    THEN relevant_turns = SelectSeq(request.history, IsAnsweredMarkerFree)
    ELSE relevant_turns = <<>>

\* a history of an unanswered turn and a relevant one: one turn is kept
C14_Witness ==
    /\ Handling
    /\ Len(request.history) = 2
    /\ request.history[1].answer = None
    /\ Len(relevant_turns) = 1
    /\ relevant_turns[1] = request.history[2]

(***************************************************************************)
(* C15: in a chat session, when the reply before the current question is   *)
(* the rendering of a follow-up rejection, the relevant turns of the       *)
(* current request are exactly the relevant turns the rejected request     *)
(* had, in the same order (there is at least one), and the rejected turn   *)
(* is not among them.                                                      *)
(***************************************************************************)
IsContextTurn(t) == HasAnswerText(t) /\ ~CarriesMarker(t)
\* the current question follows a question whose reply shows a follow-up
\* rejection: the not-related banner, then the rejection label
AfterFollowupRejection ==
    /\ client_pc = "waiting"
    /\ Len(session_history) >= 3
    /\ LET n == Len(session_history)
       IN  /\ session_history[n - 2].role = "user"
           /\ session_history[n - 1].role = "assistant"
           /\ StartsWith(session_history[n - 1].content,
                         NewTopicBanner \o "\n\n" \o NotRelevantLabel)
\* the relevant turns of the request that was rejected
RelevantBeforeRejection ==
    SelectSeq(ApiHistory(SubSeq(session_history, 1, Len(session_history) - 2)),
              IsContextTurn)

Occurrences(seq, x) == Cardinality({i \in DOMAIN seq : seq[i] = x})
RowIds(rows) == [i \in DOMAIN rows |-> rows[i].vector_id]
IdSet(ids) == {ids[i] : i \in DOMAIN ids}

FetchContract(ids, rows) ==
    /\ \A i \in DOMAIN rows :
          /\ rows[i].vector_id \in IdSet(ids)
          /\ rows[i].vector_id \in DOMAIN patent_chunks
          /\ rows[i] = Row(rows[i].vector_id)
    /\ \A id \in IdSet(ids) \cap DOMAIN patent_chunks :
          \E i \in DOMAIN rows : rows[i].vector_id = id
    /\ \A id \in VectorIds :
          /\ Occurrences(RowIds(rows), id) <= Occurrences(ids, id)
          /\ id \notin DOMAIN patent_chunks => Occurrences(RowIds(rows), id) = 0

C16_FetchContract ==
    /\ pc = "fetch" => \E out \in FetchOutcomes(vector_ids) : out.kind = "rows"
    /\ \A i \in DOMAIN calls :
          IsFetchCall(calls[i]) /\ calls[i].ret.kind = "rows"
             => FetchContract(calls[i].vector_ids, calls[i].ret.rows)

\* a list that names a stored row twice and an identifier with no row
C16_Witness ==
    /\ pc = "done"
    /\ Len(calls) = 1
    /\ IsFetchCall(calls[1])
    /\ calls[1].vector_ids = <<"v1", "v3", "v1">>
    /\ calls[1].ret.kind = "rows"
    /\ Len(calls[1].ret.rows) = 1
    /\ "v1" \in DOMAIN patent_chunks

(***************************************************************************)
(* C17: the history the chat client sends with a question is, in           *)
(* conversation order, one pair for each user turn before the question     *)
(* that is immediately followed by an assistant turn, made of these two    *)
(* turns; the question itself and user turns with no reply after them are  *)
(* in no pair, and no reply is in two pairs.                               *)
(***************************************************************************)
EarlierTurns == SubSeq(session_history, 1, Len(session_history) - 1)
IsAnsweredAt(i) ==
    /\ EarlierTurns[i].role = "user"
    /\ EarlierTurns[i + 1].role = "assistant"
AnsweredPositions ==
    SelectSeq([i \in 1..(Len(EarlierTurns) - 1) |-> i], IsAnsweredAt)
AdjacentPairs ==
    [k \in DOMAIN AnsweredPositions |->
        [question |-> EarlierTurns[AnsweredPositions[k]].content,
         answer |-> Some(EarlierTurns[AnsweredPositions[k] + 1].content)]]

C17_ApiHistory ==
    client_pc = "waiting" =>
        /\ api_history = AdjacentPairs
        /\ pc # "idle" => request.history = api_history
        /\ request.query = session_history[Len(session_history)].content

\* a question whose run was stopped before any reply, then an answered
\* question, then the current one: one pair, for the answered question
C17_Witness ==
    /\ client_pc = "waiting"
    /\ Len(session_history) = 4
    /\ session_history[1].role = "user"
    /\ session_history[2].role = "user"
    /\ session_history[1].content # session_history[2].content
    /\ session_history[3].role = "assistant"
    /\ Len(api_history) = 1
    /\ api_history[1].question = session_history[2].content

(***************************************************************************)
(* C18: the reply the chat client shows for a 200 response is the relation *)
(* banner, then the provenance note, then one body, the first that applies *)
(* of: rejection message, generic answer, summary (the response has a      *)
(* non-empty live_summary), itemized results, empty-state message; so the  *)
(* empty-state message is shown only when the response has none of the     *)
(* other four.                                                             *)
(***************************************************************************)
IsRejection(data) ==
    "message" \in DOMAIN data /\ Contains(Lower(data.message), "not relevant")
HasGenericAnswer(data) == "generic_answer" \in DOMAIN data
HasLiveSummary(data) == "live_summary" \in DOMAIN data /\ data.live_summary # ""
HasResults(data) == "results" \in DOMAIN data /\ Len(data.results) > 0

BodyByPriority(data) ==
    IF IsRejection(data) THEN <<NotRelevantLabel \o data.message>>
    ELSE IF HasGenericAnswer(data)
    THEN (IF "message" \in DOMAIN data
          THEN <<SystemMessageLabel \o data.message>> ELSE <<>>)
             \o <<ResponseLabel \o data.generic_answer>>
    ELSE IF HasLiveSummary(data) THEN <<SummaryLabel \o data.live_summary>>
    ELSE IF HasResults(data)
    THEN <<ResultsLabel>>
             \o [idx \in 1..Len(data.results) |-> ResultText(idx, data.results[idx])]
    ELSE <<NoResultsMessage>>

RenderByPriority(data, sent_history) ==
    JoinParts(SelectSeq(BannerParts(data, sent_history) \o NoteParts(data)
                            \o BodyByPriority(data),
                        NotBlank))

\* the client takes the router's response and appends its reply
ReplyShown ==
    /\ client_pc = "waiting"
    /\ pc = "done"
    /\ pc' = "idle"
    /\ Len(session_history') = Len(session_history) + 1
    /\ session_history'[Len(session_history')].content # timeout_msg

C18_RenderPriority ==
    [][ReplyShown =>
          session_history'[Len(session_history')].content
              = RenderByPriority(response, api_history)]_vars

\* the same with the summary shown only when the summary option of the
\* client is on
C18_RenderWithOption ==
    [][ReplyShown =>
          session_history'[Len(session_history')].content
              = (IF summary \/ ~HasLiveSummary(response)
                    \/ IsRejection(response) \/ HasGenericAnswer(response)
                 THEN RenderByPriority(response, api_history)
                 ELSE RenderByPriority([k \in DOMAIN response \ {"live_summary"}
                                           |-> response[k]], api_history))]_vars

\* the router answers a summary request with a live_summary while the
\* summary option of the client is off
C18_Witness ==
    /\ client_pc = "waiting"
    /\ pc = "done"
    /\ ~summary
    /\ HasLiveSummary(response)
    /\ ~IsRejection(response)
    /\ ~HasGenericAnswer(response)

(***************************************************************************)
(* C19: when an ingestion run has ended, every chunk of which the dense    *)
(* embedding, the sparse embedding or the vector upsert failed was         *)
(* skipped (it has no vector, no metadata record and is not counted as     *)
(* processed), every other chunk of the document was processed, and the    *)
(* number of failed chunks is among the numbers the run reports.           *)
(***************************************************************************)
CallFailed(c) ==
    \/ c.fn \in {"generate_dense_embedding", "generate_sparse_embedding"} /\ c.ret = None
    \/ c.fn = "upsert_hybrid_vector" /\ c.ret = "failed"
EmbeddingFailed(c) ==
    c.fn \in {"generate_dense_embedding", "generate_sparse_embedding"} /\ c.ret = None
AttemptedChunks ==
    {ing_calls[i].vector_id :
        i \in {j \in DOMAIN ing_calls : ing_calls[j].fn = "generate_dense_embedding"}}
FailedChunks ==
    {ing_calls[i].vector_id : i \in {j \in DOMAIN ing_calls : CallFailed(ing_calls[j])}}
EmbeddingFailedChunks ==
    {ing_calls[i].vector_id :
        i \in {j \in DOMAIN ing_calls : EmbeddingFailed(ing_calls[j])}}
Skipped(id) == id \notin DOMAIN patent_chunks /\ id \notin DOMAIN index_vectors

C19_EmbeddingFailuresSkip ==
    ing_pc = "ended" =>
        /\ \A id \in EmbeddingFailedChunks : Skipped(id)
        /\ Cardinality(AttemptedChunks) = Len(chunks)
        /\ total_chunks = Cardinality(DOMAIN patent_chunks)

C20_VectorsHaveRecords ==
    ing_pc = "ended" => DOMAIN index_vectors \subseteq DOMAIN patent_chunks

EnglishAbstract(p) ==
    extract_english_field(Get(p, "abstracts", <<>>), "paragraph_markup")
EnglishClaims(p) ==
    LET outer == Get(p, "claims", <<>>)
        inner == IF Len(outer) = 0 THEN <<>> ELSE Get(outer[1], "claims", <<>>)
        english == SelectSeq(inner, IsEnglish)
    IN  JoinSpace([i \in DOMAIN english |-> Get(english[i], "paragraph_markup", "")])
HasNoText(p) == Strip(EnglishAbstract(p) \o " " \o EnglishClaims(p)) = ""

AtTextlessDocument ==
    /\ ing_pc = "file"
    /\ file_idx < Len(file_paths)
    /\ file_paths[file_idx + 1].loads
    /\ HasNoText(patent)

NothingDone ==
    /\ ing_calls' = ing_calls
    /\ index_vectors' = index_vectors
    /\ uncommitted' = uncommitted
    /\ patent_chunks' = patent_chunks
    /\ total_chunks' = total_chunks

C21_TextlessSkipped ==
    [][AtTextlessDocument =>
          /\ NothingDone
          /\ ing_pc' = "file"
          /\ file_idx' = file_idx + 1
          /\ \E k \in DOMAIN Report : Report'[k] = Report[k] + 1]_vars

\* what the code does for such a document: nothing is called or written, and
\* the run either goes on to the next document or, when the claims array
\* is there and empty, stops on the IndexError of l.64
C21_TextlessUntouched ==
    [][AtTextlessDocument =>
          /\ NothingDone
          /\ \/ ing_pc' = "file" /\ file_idx' = file_idx + 1
             \/ ing_pc' = "crashed" /\ Get(patent, "claims", <<[claims |-> <<>>]>>) = <<>>]_vars

\* a run that has passed over a document without text and ended
C21_Witness ==
    /\ ing_pc = "ended"
    /\ Len(file_paths) = 2
    /\ file_paths[1] = [loads |-> TRUE, patent |-> BlankPatent]
    /\ ~file_paths[2].loads
    /\ ing_calls = <<>>
    /\ total_chunks = 0

(***************************************************************************)
(* C22: when the same patent has been ingested twice, with the same        *)
(* chunks and no failing call in either run, the Metadata Store and the    *)
(* Vector Index hold as many entries for it as they held after the first   *)
(* run.                                                                    *)
(***************************************************************************)
RunStartAt == CHOOSE i \in DOMAIN ing_calls : IsRunStart(ing_calls[i])
IngestedTwice == ing_pc = "ended" /\ \E i \in DOMAIN ing_calls : IsRunStart(ing_calls[i])
IsInsert(c) == c.fn = "insert_metadata" /\ c.ret = "ok"
InsertsOfFirstRun == Len(SelectSeq(SubSeq(ing_calls, 1, RunStartAt - 1), IsInsert))
InsertsOfSecondRun ==
    Len(SelectSeq(SubSeq(ing_calls, RunStartAt + 1, Len(ing_calls)), IsInsert))
NoCallFailed == \A i \in DOMAIN ing_calls : ~CallFailed(ing_calls[i])
SameIngestionTwice ==
    /\ IngestedTwice
    /\ NoCallFailed
    /\ InsertsOfFirstRun = InsertsOfSecondRun

C22_ReplacedOnSameSuffix ==
    SameIngestionTwice =>
        /\ Cardinality(DOMAIN patent_chunks) >= ing_calls[RunStartAt].records
        /\ DOMAIN patent_chunks = DOMAIN index_vectors
        /\ DOMAIN patent_chunks =
              {ing_calls[i].vector_id : i \in {j \in DOMAIN ing_calls : IsInsert(ing_calls[j])}}

WrittenFields ==
    <<"patent_number", "title", "description", "abstract", "claims_text",
      "detailed_summary">>
ReturnedFields == {"vector_id", "patent_number", "title", "detailed_summary"}

\* the arguments of the last successful insert_metadata call for id, by name
Written(id) ==
    LET at == CHOOSE i \in DOMAIN ing_calls :
                  /\ IsInsert(ing_calls[i]) /\ ing_calls[i].vector_id = id
                  /\ \A j \in DOMAIN ing_calls :
                        IsInsert(ing_calls[j]) /\ ing_calls[j].vector_id = id => j <= i
    IN  [k \in 1..Len(WrittenFields) |-> ing_calls[at].args[k + 1]]

FieldOfWritten(id, field) ==
    Written(id)[CHOOSE k \in DOMAIN WrittenFields : WrittenFields[k] = field]

\* fetch_metadata_from_sqlite returns rows for the identifier X
FetchReturns ==
    /\ pc = "fetch"
    /\ pc' = "done"
    /\ Len(calls') = Len(calls) + 1
    /\ calls'[Len(calls')].ret.kind = "rows"
    /\ Len(vector_ids) = 1
    /\ vector_ids[1] \in InsertedIds
FetchedNow == calls'[Len(calls')].ret.rows

LacksLanguageTag(entries) == \E i \in DOMAIN entries : "lang" \notin DOMAIN entries[i]
IsMalformed(file) ==
    \/ ~file.loads
    \/ \E key \in {"titles", "abstracts", "descriptions", "claims"} :
          \/ key \notin DOMAIN file.patent
          \/ key # "claims" /\ LacksLanguageTag(file.patent[key])
    \/ file.patent.claims = <<>>

AtMalformedDocument ==
    /\ ing_pc = "file"
    /\ file_idx < Len(file_paths)
    /\ IsMalformed(file_paths[file_idx + 1])

C24_MalformedDoesNotHalt ==
    [][AtMalformedDocument =>
          \/ ing_pc' = "file" /\ file_idx' = file_idx + 1
          \/ ing_pc' = "summary" /\ file_idx' = file_idx]_vars

\* the same for every malformation but the empty claims array
C24_OtherMalformationsPass ==
    [][(AtMalformedDocument
            /\ (file_paths[file_idx + 1].loads =>
                   Get(patent, "claims", <<[claims |-> <<>>]>>) # <<>>)) =>
          \/ ing_pc' = "file" /\ file_idx' = file_idx + 1
          \/ ing_pc' = "summary" /\ file_idx' = file_idx]_vars

\* the run has stopped on a patent whose claims array is empty, the files
\* after it untouched
C24_Witness ==
    /\ ing_pc = "crashed"
    /\ Len(file_paths) = 2
    /\ file_idx = 0
    /\ file_paths[1] = [loads |-> TRUE, patent |-> NoClaimsPatent]
    /\ ing_calls = <<>>

(***************************************************************************)
(* C25: for a document with non-empty combined text, the summary step      *)
(* makes one generate_summary call over the whole combined text, before    *)
(* any chunk is embedded, and ingestion goes on to split and embed the     *)
(* text with the value the call returned as detailed_summary.              *)
(***************************************************************************)
IsIngestSummaryCall(c) == c.fn = "generate_summary"
IsEmbeddingCall(c) ==
    c.fn \in {"generate_dense_embedding", "generate_sparse_embedding"}
SummaryCallMade ==
    /\ Len(ing_calls') = Len(ing_calls) + 1
    /\ IsIngestSummaryCall(ing_calls'[Len(ing_calls')])
    /\ ing_calls'[Len(ing_calls')].args = <<doc_combined_text>>
    /\ \A i \in DOMAIN ing_calls : ~IsEmbeddingCall(ing_calls[i])

C25_SummaryThenChunks ==
    [][ing_pc = "summary" =>
          /\ SummaryCallMade
          /\ ing_calls'[Len(ing_calls')].ret # Raise
          /\ ing_pc' = "split"]_vars

\* what the step does: the one call is made, over the combined text and
\* before any embedding, and it raises; the run stops
C25_SummaryCallRaises ==
    [][ing_pc = "summary" =>
          /\ SummaryCallMade
          /\ ing_calls'[Len(ing_calls')].ret = Raise
          /\ ing_pc' = "crashed"
          /\ uncommitted' = <<>> /\ patent_chunks' = patent_chunks]_vars

\* the run has stopped in the summary call of the second file; the first
\* was passed over
C25_Witness ==
    /\ ing_pc = "crashed"
    /\ file_idx = 1
    /\ file_paths[2] = [loads |-> TRUE, patent |-> DronePatent]
    /\ Len(ing_calls) = 1
    /\ IsIngestSummaryCall(ing_calls[1])
    /\ ing_calls[1].args = <<"A drone. One. Two.">>
    /\ ing_calls[1].ret = Raise

\* in the chunk loop every record written carries the detailed_summary the
\* loop was entered with
C25_RecordsCarrySummary ==
    /\ \A id \in DOMAIN uncommitted : uncommitted[id].detailed_summary = detailed_summary
    /\ \A id \in DOMAIN patent_chunks : patent_chunks[id].detailed_summary = detailed_summary

(***************************************************************************)
(* C26: a response of the search endpoint has the key 'related' exactly    *)
(* when the request had at least one relevant turn and the response is no  *)
(* error payload, and has the key 'note' exactly when it has related =     *)
(* true.                                                                   *)
(***************************************************************************)
C26_KeyDiscipline ==
    pc = "done" =>
        /\ HasKey("related") <=> (Len(relevant_turns) > 0 /\ ~HasKey("error"))
        /\ HasKey("note") <=> (HasKey("related") /\ response.related)

\* a new topic after a relevant turn, answered with results and a summary
C26_Witness ==
    /\ pc = "done"
    /\ Len(relevant_turns) > 0
    /\ branch = "new"
    /\ HasKey("live_summary")
    /\ HasKey("related")
    /\ ~response.related
    /\ ~HasKey("note")

(***************************************************************************)
(* C27: whenever the relatedness scan has reported is_related = true,      *)
(* related_to_index is a position of the relevant-turn list, counted from  *)
(* 0, the turn at that position is related_turn, and the note of the       *)
(* response names that position plus one, a number within the relevant     *)
(* turns and not within the history as sent.                               *)
(***************************************************************************)
C27_RelatedIndex ==
    relevance_result.is_related =>
        /\ relevance_result.related_to_index # None
        /\ relevance_result.related_turn # None
        /\ LET index_found == relevance_result.related_to_index[1]
           IN  /\ 0 <= index_found
               /\ index_found < Len(relevant_turns)
               /\ relevant_turns[index_found + 1] = relevance_result.related_turn[1]
               /\ (pc = "done" /\ HasKey("note")) =>
                     response.note \in {BasedOnNote(index_found + 1),
                                        ResultsNote(index_found + 1)}

\* the history starts with a turn that is no relevant turn; the scan finds
\* the turn after it, the first relevant one, and the note says #1
C27_Witness ==
    /\ pc = "done"
    /\ relevance_result.is_related
    /\ Len(request.history) = 2
    /\ Len(relevant_turns) = 1
    /\ relevant_turns[1] = request.history[2]
    /\ relevance_result.related_to_index = Some(0)
    /\ HasKey("note")
    /\ response.note = ResultsNote(1)

(***************************************************************************)
(* C28.  After every completed submission, whatever its outcome, one user  *)
(* entry and one assistant entry have been appended in that order and no   *)
(* earlier entry has changed; so between submissions the history strictly  *)
(* alternates user/assistant starting with user, has even length, and the  *)
(* history sent to the router has one pair per earlier question.  Clearing *)
(* the chat empties the history.                                           *)
(***************************************************************************)
Alternates(turns) ==
    \A i \in 1..Len(turns) :
        turns[i].role = (IF i % 2 = 1 THEN "user" ELSE "assistant")
QuestionsIn(turns) ==
    Cardinality({i \in 1..Len(turns) : turns[i].role = "user"})

\* as stated: between submissions the history alternates and has even
\* length; the history sent has one pair per earlier question
C28_Alternation ==
    /\ client_pc = "input" =>
           /\ Len(session_history) % 2 = 0
           /\ Alternates(session_history)
    /\ client_pc = "waiting" =>
           Len(api_history) = QuestionsIn(session_history) - 1

\* what the code does keep: the history only grows at its end, by the
\* question on submission and by one reply when the run reaches an append,
\* and the clear button empties it
C28_AppendOnly ==
    [][ /\ (client_pc = "input" /\ client_pc' = "waiting") =>
               /\ Len(session_history') = Len(session_history) + 1
               /\ SubSeq(session_history', 1, Len(session_history)) = session_history
               /\ session_history'[Len(session_history')].role = "user"
        /\ (client_pc = "waiting" /\ client_pc' = "input"
                /\ session_history' # session_history) =>
               /\ Len(session_history') = Len(session_history) + 1
               /\ SubSeq(session_history', 1, Len(session_history)) = session_history
               /\ session_history'[Len(session_history')].role = "assistant"
               /\ session_history[Len(session_history)].role = "user"
        /\ (client_pc = "input" /\ client_pc' = "input") =>
               session_history' \in {session_history, <<>>} ]_vars

\* two questions in a row: the run of the first was stopped before its reply
C28_Witness ==
    /\ client_pc = "input"
    /\ Len(session_history) = 2
    /\ session_history[1].role = "user"
    /\ session_history[2].role = "user"

(***************************************************************************)
(* C29.  An assistant reply without the 'not relevant to patents' text     *)
(* makes its turn a relevant turn of later requests, the client's own      *)
(* timeout, connection-error and non-200 messages, its 'No Results Found'  *)
(* text and its rendering of an error payload included; the query after    *)
(* such a reply goes through the follow-up branch, not through the         *)
(* fresh-conversation branch.                                              *)
(***************************************************************************)
MarkerFreeReplyAt(i) ==
    /\ i \in 2..(Len(session_history) - 1)
    /\ session_history[i].role = "assistant"
    /\ ~Contains(Lower(session_history[i].content), NotRelevantMarker)
TurnOfReply(i) ==
    [question |-> session_history[i - 1].content,
     answer |-> Some(session_history[i].content)]
InRelevantTurns(turn) ==
    \E k \in 1..Len(relevant_turns) : relevant_turns[k] = turn
FollowupBranchOnly ==
    /\ Len(relevant_turns) > 0
    /\ pc # "classify_first"
    /\ branch # "first"

C29_FailureRepliesAreContext ==
    (client_pc = "waiting" /\ pc # "idle") =>
        \A i \in 1..Len(session_history) :
            MarkerFreeReplyAt(i) =>
                /\ InRelevantTurns(TurnOfReply(i))
                /\ FollowupBranchOnly

\* the question after a non-200 reply is in the relatedness scan
C29_Witness ==
    /\ client_pc = "waiting"
    /\ pc = "scan"
    /\ Len(session_history) = 3
    /\ session_history[2] =
           AssistantTurn(ApiErrorMessage("500", "Internal Server Error"))
    /\ InRelevantTurns(TurnOfReply(2))

(***************************************************************************)
(* C30.  classify_query_type never raises and returns one of the three     *)
(* labels; it returns 'irrelevant' when the provider call raises, returns  *)
(* no text, or returns text that trimmed and lower-cased is not a label.   *)
(* So while the provider is failing, every query without a technical       *)
(* marker term and without a summary marker word gets the rejection        *)
(* message.                                                                *)
(***************************************************************************)
ClassifierTotal ==
    /\ \A resp \in ClassifierOutcomes : classify_query_type(resp) \in QueryLabels
    /\ classify_query_type(Raise) = "irrelevant"
    /\ classify_query_type(NoText) = "irrelevant"
    /\ classify_query_type(Text("It is specific")) = "irrelevant"
    /\ classify_query_type(Text("IRRELEVANT")) = "irrelevant"
    /\ classify_query_type(Text(" Generic\n")) = "generic"
    /\ classify_query_type(Text("specific")) = "specific"
PlainQuery == ~ForceSpecific(query_text) /\ ~IsSummaryRequest(query_text)
IsPlainRejection ==
    /\ HasKey("message")
    /\ response.message = RejectionMessage
    /\ response.results = <<>>
    /\ ~HasKey("generic_answer")
    /\ ~HasKey("error")

C30_FailingClassifierRejects ==
    /\ ClassifierTotal
    /\ \A k \in 1..Len(calls) :
           calls[k].fn = "classify_query_type" => calls[k].ret = "irrelevant"
    /\ (pc = "done" /\ PlainQuery) =>
           /\ IsPlainRejection
           /\ Len(calls) = 1
           /\ calls[1].fn = "classify_query_type"

\* a follow-up about the weather is rejected after the one failed call
C30_Witness ==
    /\ pc = "done"
    /\ query_text = "What's the weather today?"
    /\ Len(relevant_turns) > 0
    /\ response = FollowupRejection
    /\ calls = <<[fn |-> "classify_query_type", query |-> query_text,
                  ret |-> "irrelevant"]>>

====
